---- MODULE Spec2Model ----
(***************************************************************************)
(* Human Interaction Engine, Universal Element Resolver and the plan       *)
(* execution loop of the content script.                                    *)
(*                                                                          *)
(*   HumanInteractor   extension/src/lib/messaging.ts  (lines 255-764)      *)
(*   ElementResolver   unnamed/part_002                                     *)
(*   executeActionPlan extension/src/content.ts        (lines 1128-1183)    *)
(*                                                                          *)
(* Strings are TLA+ strings; includes/toLowerCase/split are computed on    *)
(* them character by character.  Scores are kept as integers, Scale times  *)
(* the floating point score of the source.                                 *)
(***************************************************************************)
EXTENDS Integers, Sequences, FiniteSets, TLC

\* ------------------------------------------------------------------ bounds
\* every plan (array payload) of up to MaxPlanLen entries is handed to
\* executeActionPlan, and the longer plans of LongPlans besides
MaxPlanLen == 2

\* ------------------------------------------------------- JavaScript values
\* the value `undefined` (an absent property, an absent attribute)
Undefined == "\\undefined"
\* a null element reference (lastFocusedElement = null, match = null)
NoElement == 0

\* `${v}` in a template literal
TemplateString(v) == IF v = Undefined THEN "undefined" ELSE v

\* !v for a string-or-undefined operand (action.target, action.text)
Falsy(v) == v = Undefined \/ v = ""

\* String.prototype.includes
Includes(s, t) ==
  \E str \in {s} :
    \/ t = ""
    \/ \E i \in 1..(Len(str) - Len(t) + 1) :
         SubSeq(str, i, i + Len(t) - 1) = t

\* one character of toLowerCase (the upper-case letters the page below uses)
LowerChar(c) ==
  CASE c = "C" -> "c"
    [] c = "N" -> "n"
    [] c = "A" -> "a"
    [] c = "M" -> "m"
    [] c = "E" -> "e"
    [] c = "S" -> "s"
    [] c = "P" -> "p"
    [] c = "D" -> "d"
    [] c = "I" -> "i"
    [] OTHER -> c

RECURSIVE LowerFrom(_, _)
\* the characters of s from the i-th on, in lower case
LowerFrom(s, i) ==
  IF i > Len(s) THEN ""
  ELSE LowerChar(SubSeq(s, i, i)) \o LowerFrom(s, i + 1)

\* String.prototype.toLowerCase
ToLowerCase(s) == LowerFrom(s, 1)

RECURSIVE TrimLeft(_)
TrimLeft(s) ==
  IF s # "" /\ SubSeq(s, 1, 1) = " " THEN TrimLeft(SubSeq(s, 2, Len(s))) ELSE s

RECURSIVE TrimRight(_)
TrimRight(s) ==
  IF s # "" /\ SubSeq(s, Len(s), Len(s)) = " "
  THEN TrimRight(SubSeq(s, 1, Len(s) - 1)) ELSE s

\* String.prototype.trim
Trim(s) ==
  CHOOSE t \in {TrimRight(TrimLeft(str)) : str \in {s}} : TRUE

RECURSIVE SplitFrom(_, _, _)
\* the words of s after position i, cur being the word read so far
SplitFrom(s, i, cur) ==
  IF i > Len(s) THEN <<cur>>
  ELSE IF SubSeq(s, i, i) = " " THEN <<cur>> \o SplitFrom(s, i + 1, "")
  ELSE SplitFrom(s, i + 1, cur \o SubSeq(s, i, i))

\* text.split(' ')
SplitSpaces(s) == SplitFrom(s, 1, "")

\* ------------------------------------------------------------------ state
\* the page: its elements, in document order
VARIABLE document

\* ---------------------------------------------------------------- the page
\* A document the resolver and the engine run against.  Every element has a
\* tag, the attributes the source reads, its own text node, its parent, the
\* y coordinate of its centre in the document (all boxes are centred on one
\* vertical line and have positive size), and the computed style the
\* visibility test reads, and whether the page has removed it from the
\* document since (a reference to it stays valid, queries no longer find it).
NoAttrs ==
  [ id |-> Undefined, name |-> Undefined, class |-> Undefined,
    placeholder |-> Undefined, ariaLabel |-> Undefined,
    ariaLabelledby |-> Undefined, type |-> Undefined, role |-> Undefined,
    autocomplete |-> Undefined, for |-> Undefined, tabindex |-> Undefined,
    contenteditable |-> Undefined, disabled |-> Undefined,
    dataTestid |-> Undefined ]

Node(tag, text, parent, y, attrs) ==
  [ tag |-> tag, text |-> text, parent |-> parent, y |-> y, attrs |-> attrs,
    displayNone |-> FALSE, pointerEventsNone |-> FALSE, detached |-> FALSE ]

\*  1 <label for="email">Email</label>
\*  2 <input id="email" name="email">
\*  3 <input id="pw" type="password" aria-label="Password">
\*  4 <input id="card" aria-label="Card number" autocomplete="cc-number">
\*  5 <div contenteditable aria-label="Card note" autocomplete="cc-number">
\*  6 <textarea aria-label="Name on card" autocomplete="CC-NAME">
\*  7 <button id="save">Save</button>
\*  8 <button aria-label="Delete" style="display:none">
\*  9 <a id="terms" tabindex="0">Terms</a>
\* 10 <body>, which holds them all (and is no <label>: parent is left empty)
InitialDocument ==
  << Node("label", "Email", NoElement, 100, [NoAttrs EXCEPT !.for = "email"]),
     Node("input", "", NoElement, 130,
          [NoAttrs EXCEPT !.id = "email", !.name = "email"]),
     Node("input", "", NoElement, 400,
          [NoAttrs EXCEPT !.id = "pw", !.type = "password",
                          !.ariaLabel = "Password"]),
     Node("input", "", NoElement, 700,
          [NoAttrs EXCEPT !.id = "card", !.ariaLabel = "Card number",
                          !.autocomplete = "cc-number"]),
     Node("div", "", NoElement, 1000,
          [NoAttrs EXCEPT !.contenteditable = "", !.ariaLabel = "Card note",
                          !.autocomplete = "cc-number"]),
     Node("textarea", "", NoElement, 1300,
          [NoAttrs EXCEPT !.ariaLabel = "Name on card",
                          !.autocomplete = "CC-NAME"]),
     Node("button", "Save", NoElement, 1600, [NoAttrs EXCEPT !.id = "save"]),
     [ Node("button", "", NoElement, 1900,
            [NoAttrs EXCEPT !.ariaLabel = "Delete"])
       EXCEPT !.displayNone = TRUE ],
     Node("a", "Terms", NoElement, 2200,
          [NoAttrs EXCEPT !.id = "terms", !.tabindex = "0"]),
     Node("body", "", NoElement, 1150, NoAttrs) >>

\* document.body
Body == Len(document)

Elements == 1..Len(document)

\* window.innerHeight, and half the height of every element's box
InnerHeight == 600
HalfBox == 10

\* element.isConnected
Attached(e) == ~document[e].detached

\* element.hasAttribute(a)
HasAttribute(e, a) == document[e].attrs[a] # Undefined

\* element.tagName.toLowerCase()
TagName(e) == document[e].tag

\* the reflected IDL property element.type: present on form controls only
\* ('type' in element), an <input>'s unknown or missing type reads "text"
InputTypes == {"text", "password", "email", "button", "submit", "checkbox"}

HasTypeProperty(e) ==
  TagName(e) \in {"input", "textarea", "select", "button"}

TypeProperty(e) ==
  CASE TagName(e) = "input" ->
         IF HasAttribute(e, "type")
            /\ ToLowerCase(document[e].attrs.type) \in InputTypes
         THEN ToLowerCase(document[e].attrs.type) ELSE "text"
    [] TagName(e) = "textarea" -> "textarea"
    [] TagName(e) = "select" -> "select-one"
    [] TagName(e) = "button" -> "submit"
    [] OTHER -> Undefined

\* 'value' in element
HasValueProperty(e) ==
  TagName(e) \in {"input", "textarea", "select", "button"}

\* label.textContent / element.textContent (elements here hold one text node)
TextContent(e) == document[e].text

\* ------------------------------------------------------ Element Resolver
\* scores are Scale times the source's floating point scores
Scale == 1000
labelExact == 3000
labelContains == 2000
nameContains == 1500
idContains == 1000
roleBias == 800
nearbyText == 600
\* idContains * 0.5 and idContains * 0.7
classContains == 500
dataContains == 700
\* CONFIDENCE_THRESHOLDS
thresholdHigh == 4000
thresholdMedium == 2500
thresholdLow == 1000
\* scoreNearbyText's searchRadius, in pixels
searchRadius == 120
\* findElement's default timeout, its settle wait after scrollIntoView and
\* its polling interval, in milliseconds
defaultTimeout == 5000
scrollSettleMs == 300
pollIntervalMs == 100

\* the attribute value as getElementAttributes keeps it: lower-cased, and
\* absent when the attribute is missing or empty
AttrLower(e, a) ==
  IF Falsy(document[e].attrs[a]) THEN Undefined
  ELSE ToLowerCase(document[e].attrs[a])

\* attributes.x?.includes(target)
AttrIncludes(e, a, target) ==
  AttrLower(e, a) # Undefined /\ Includes(AttrLower(e, a), target)

RECURSIVE AncestorLabel(_)
\* the nearest ancestor <label> of an element, or NoElement
AncestorLabel(e) ==
  LET p == document[e].parent
  IN  IF p = NoElement THEN NoElement
      ELSE IF TagName(p) = "label" THEN p
      ELSE AncestorLabel(p)

RECURSIVE LabelsFor(_, _)
\* document.querySelectorAll(`label[for="${id}"]`) from element i on
LabelsFor(id, i) ==
  IF i > Len(document) THEN <<>>
  ELSE (IF TagName(i) = "label" /\ document[i].attrs.for = id /\ Attached(i)
        THEN <<i>> ELSE <<>>) \o LabelsFor(id, i + 1)

\* getAssociatedLabels: the labels with for=id, then the ancestor label
getAssociatedLabels(e) ==
  (IF Falsy(document[e].attrs.id) THEN <<>>
   ELSE LabelsFor(document[e].attrs.id, 1))
  \o (IF AncestorLabel(e) = NoElement THEN <<>> ELSE <<AncestorLabel(e)>>)

\* exact match +labelExact, substring match +labelContains
LabelTextScore(text, target) ==
  IF text = target THEN labelExact
  ELSE IF Includes(text, target) THEN labelContains
  ELSE 0

RECURSIVE SumLabelScores(_, _)
SumLabelScores(labels, target) ==
  IF labels = <<>> THEN 0
  ELSE LabelTextScore(Trim(ToLowerCase(TextContent(Head(labels)))), target)
       + SumLabelScores(Tail(labels), target)

\* document.getElementById
GetElementById(id) ==
  IF \E e \in Elements : document[e].attrs.id = id /\ Attached(e)
  THEN CHOOSE e \in Elements :
         /\ document[e].attrs.id = id /\ Attached(e)
         /\ \A f \in Elements :
              document[f].attrs.id = id /\ Attached(f) => e <= f
  ELSE NoElement

scoreLabelAssociation(e, target) ==
  LET aria == document[e].attrs.ariaLabel
      by == document[e].attrs.ariaLabelledby
      ref == IF Falsy(by) THEN NoElement ELSE GetElementById(by)
  IN  (IF Falsy(aria) THEN 0 ELSE LabelTextScore(ToLowerCase(aria), target))
      + SumLabelScores(getAssociatedLabels(e), target)
      + (IF ref = NoElement THEN 0
         ELSE LabelTextScore(Trim(ToLowerCase(TextContent(ref))), target))

\* scoreAttributes without the class attribute
scoreAttributesNoClass(e, target) ==
  (IF AttrIncludes(e, "name", target) THEN nameContains ELSE 0)
  + (IF AttrIncludes(e, "placeholder", target) THEN nameContains ELSE 0)
  + (IF AttrIncludes(e, "id", target) THEN idContains ELSE 0)
  + (IF AttrIncludes(e, "dataTestid", target) THEN dataContains ELSE 0)

scoreAttributes(e, target) ==
  (IF AttrIncludes(e, "name", target) THEN nameContains ELSE 0)
  + (IF AttrIncludes(e, "placeholder", target) THEN nameContains ELSE 0)
  + (IF AttrIncludes(e, "id", target) THEN idContains ELSE 0)
  + (IF AttrIncludes(e, "class", target) THEN classContains ELSE 0)
  + (IF AttrIncludes(e, "dataTestid", target) THEN dataContains ELSE 0)

\* getDistance between the centres of two boxes (all on one vertical line)
getDistance(e1, e2) ==
  IF document[e1].y >= document[e2].y
  THEN document[e1].y - document[e2].y
  ELSE document[e2].y - document[e1].y

RECURSIVE NearbyFrom(_, _, _)
\* the tree walk over the document's text nodes, from node i on
NearbyFrom(e, target, i) ==
  IF i > Len(document) THEN 0
  ELSE (IF /\ document[i].text # ""
           /\ Attached(i)
           /\ getDistance(e, i) <= searchRadius
           /\ Includes(Trim(ToLowerCase(document[i].text)), target)
        THEN (nearbyText * (searchRadius - getDistance(e, i))) \div searchRadius
        ELSE 0) + NearbyFrom(e, target, i + 1)

scoreNearbyText(e, target) == NearbyFrom(e, target, 1)

buttonTargets == {"save", "submit", "send", "continue", "next", "confirm", "ok"}
inputTargets == {"email", "password", "name", "id", "phone", "address", "search"}

scoreTypeBias(e, target) ==
  LET type == IF HasAttribute(e, "type")
              THEN ToLowerCase(document[e].attrs.type) ELSE Undefined
      role == IF HasAttribute(e, "role")
              THEN ToLowerCase(document[e].attrs.role) ELSE Undefined
      isButtonTarget == \E bt \in buttonTargets : Includes(target, bt)
      isInputTarget == \E it \in inputTargets : Includes(target, it)
  IN  (IF isButtonTarget
          /\ (TagName(e) = "button" \/ type = "submit" \/ role = "button")
       THEN roleBias ELSE 0)
      + (IF isInputTarget
            /\ (TagName(e) \in {"input", "textarea"} \/ role = "textbox")
         THEN roleBias ELSE 0)

\* isElementVisible with the page scrolled to scrollY
isElementVisible(e, scrollY) ==
  /\ Attached(e)
  /\ ~document[e].displayNone
  /\ document[e].y - HalfBox - scrollY < InnerHeight
  /\ document[e].y + HalfBox - scrollY > 0

isElementInteractable(e, scrollY) ==
  /\ ~HasAttribute(e, "disabled")
  /\ ~document[e].pointerEventsNone
  /\ isElementVisible(e, scrollY)

\* the four signals of scoreElement, before the interactability penalty
SignalScore(e, target) ==
  scoreLabelAssociation(e, target) + scoreAttributes(e, target)
  + scoreNearbyText(e, target) + scoreTypeBias(e, target)

\* target.toLowerCase().trim()
NormalizeTarget(target) == Trim(ToLowerCase(target))

\* scoreElement for an element whose signals add up to signals: halved
\* when the element is not interactable
Penalized(signals, interactable) ==
  IF interactable THEN signals ELSE signals \div 2

\* scoreElement with the page scrolled to scrollY
scoreElement(e, target, scrollY) ==
  Penalized(SignalScore(e, target), isElementInteractable(e, scrollY))

\* getRelevantElements: the selector of each type hint
MatchesSelector(e, type) ==
  CASE type = "input" ->
         \/ TagName(e) \in {"input", "textarea", "select"}
         \/ HasAttribute(e, "contenteditable")
    [] type = "button" ->
         \/ TagName(e) \in {"button", "a"}
         \/ document[e].attrs.role = "button"
         \/ /\ TagName(e) = "input"
            /\ document[e].attrs.type \in {"button", "submit"}
    [] type = "link" -> TagName(e) = "a" \/ document[e].attrs.role = "link"
    [] OTHER ->
         \/ TagName(e) \in {"input", "textarea", "select", "button", "a"}
         \/ HasAttribute(e, "role")
         \/ HasAttribute(e, "contenteditable")
         \/ HasAttribute(e, "tabindex")

getRelevantElements(type) ==
  {e \in Elements : Attached(e) /\ MatchesSelector(e, type)}

RECURSIVE ScoresFrom(_, _, _, _)
\* the score of every element from element i on, in document order: 0 for
\* the elements getRelevantElements leaves out
ScoresFrom(target, type, sy, i) ==
  IF i > Len(document) THEN <<>>
  ELSE << IF i \in getRelevantElements(type) THEN scoreElement(i, target, sy)
          ELSE 0 >>
       \o ScoresFrom(target, type, sy, i + 1)

ScoresOf(target, type, sy) == ScoresFrom(target, type, sy, 1)

\* scoreAllElements keeps the elements that score above 0; matches[0]
\* after the stable descending sort is the highest score, and the first
\* of them in document order.  NoElement when nothing scores above 0.
BestOf(scores) ==
  IF \A e \in DOMAIN scores : scores[e] <= 0 THEN NoElement
  ELSE CHOOSE e \in DOMAIN scores :
         /\ scores[e] > 0
         /\ \A f \in DOMAIN scores :
              scores[e] > scores[f] \/ (scores[e] = scores[f] /\ e <= f)

\* tiers that start above their thresholds
getConfidenceStrict(score) ==
  IF score > thresholdHigh THEN "high"
  ELSE IF score > thresholdMedium THEN "medium"
  ELSE "low"

\* getConfidence
getConfidence(score) ==
  IF score >= thresholdHigh THEN "high"
  ELSE IF score >= thresholdMedium THEN "medium"
  ELSE "low"

Max(a, b) == IF a >= b THEN a ELSE b

\* where element.scrollIntoView({block}) leaves the page scrolled; an
\* element that is not rendered has no box to scroll to
ScrollIntoView(e, block, scrollY) ==
  IF document[e].displayNone \/ ~Attached(e) THEN scrollY
  ELSE CASE block = "start" -> Max(0, document[e].y - HalfBox)
         [] block = "end" -> Max(0, document[e].y + HalfBox - InnerHeight)
         [] OTHER -> Max(0, document[e].y - (InnerHeight \div 2))

\* what findElement hands back: the match (element NoElement for null),
\* where it left the page scrolled, how long it took, and the elements it
\* called scrollIntoView on
Resolved(element, score, scrollY, elapsed, scrolled) ==
  [ element |-> element, score |-> score,
    confidence |-> getConfidence(score), scrollY |-> scrollY,
    elapsed |-> elapsed, scrolled |-> scrolled ]

NoMatch(scrollY, elapsed, scrolled) ==
  Resolved(NoElement, 0, scrollY, elapsed, scrolled)

\* a pass that returns the best match once it has scrolled it into view,
\* without looking at it again
PollBestNoRecheck(best, score, requireVisible, scrollY) ==
  IF best = NoElement
  THEN Resolved(NoElement, 0, scrollY, pollIntervalMs, <<>>)
  ELSE IF requireVisible /\ ~isElementVisible(best, scrollY)
  THEN IF score >= thresholdLow
       THEN Resolved(best, score, ScrollIntoView(best, "center", scrollY),
                     scrollSettleMs, <<best>>)
       ELSE Resolved(NoElement, 0, ScrollIntoView(best, "center", scrollY),
                     scrollSettleMs + pollIntervalMs, <<best>>)
  ELSE IF score >= thresholdLow
  THEN Resolved(best, score, scrollY, 0, <<>>)
  ELSE Resolved(NoElement, 0, scrollY, pollIntervalMs, <<>>)

\* a pass that goes round again at once, without a wait, when the best
\* match is still invisible after scrollIntoView
PollBestNoSettle(best, score, requireVisible, scrollY) ==
  IF best = NoElement
  THEN Resolved(NoElement, 0, scrollY, pollIntervalMs, <<>>)
  ELSE IF requireVisible /\ ~isElementVisible(best, scrollY)
  THEN IF ~isElementVisible(best, ScrollIntoView(best, "center", scrollY))
       THEN Resolved(NoElement, 0, ScrollIntoView(best, "center", scrollY),
                     0, <<best>>)
       ELSE IF score >= thresholdLow
       THEN Resolved(best, score, ScrollIntoView(best, "center", scrollY),
                     scrollSettleMs, <<best>>)
       ELSE Resolved(NoElement, 0, ScrollIntoView(best, "center", scrollY),
                     scrollSettleMs + pollIntervalMs, <<best>>)
  ELSE IF score >= thresholdLow
  THEN Resolved(best, score, scrollY, 0, <<>>)
  ELSE Resolved(NoElement, 0, scrollY, pollIntervalMs, <<>>)

\* one pass of findElement's while loop with best = matches[0] of score
\* score: element is what the pass returns (NoElement: it goes round again)
PollBest(best, score, requireVisible, scrollY) ==
  IF best = NoElement
  THEN Resolved(NoElement, 0, scrollY, pollIntervalMs, <<>>)
  ELSE IF requireVisible /\ ~isElementVisible(best, scrollY)
  THEN IF ~isElementVisible(best, ScrollIntoView(best, "center", scrollY))
       THEN Resolved(NoElement, 0, ScrollIntoView(best, "center", scrollY),
                     scrollSettleMs, <<best>>)
       ELSE IF score >= thresholdLow
       THEN Resolved(best, score, ScrollIntoView(best, "center", scrollY),
                     scrollSettleMs, <<best>>)
       ELSE Resolved(NoElement, 0, ScrollIntoView(best, "center", scrollY),
                     scrollSettleMs + pollIntervalMs, <<best>>)
  ELSE IF score >= thresholdLow
  THEN Resolved(best, score, scrollY, 0, <<>>)
  ELSE Resolved(NoElement, 0, scrollY, pollIntervalMs, <<>>)

PollScores(scores, best, requireVisible, scrollY) ==
  PollBest(best, IF best = NoElement THEN 0 ELSE scores[best],
           requireVisible, scrollY)

\* matches[0] is read once per pass
PollRanked(scores, requireVisible, scrollY) ==
  CHOOSE p \in {PollScores(scores, best, requireVisible, scrollY) :
                  best \in {BestOf(scores)}} : TRUE

\* scoreAllElements is called once per pass
PollOnce(target, type, requireVisible, scrollY) ==
  CHOOSE p \in {PollRanked(scores, requireVisible, scrollY) :
                  scores \in {ScoresOf(target, type, scrollY)}} : TRUE

\* s repeated k times
Repeat(s, k) == [i \in 1..(k * Len(s)) |-> s[((i - 1) % Len(s)) + 1]]

\* how many passes of length each fit before left milliseconds are over
Rounds(left, each) == (left + each - 1) \div each

RECURSIVE FindLoop(_, _, _, _, _, _, _)
RECURSIVE AfterPoll(_, _, _, _, _, _, _, _)
\* the polling loop of ElementResolver.findElement on a page that does not
\* change during the call: elapsed is Date.now() - startTime, scrolled the
\* elements scrollIntoView was called on so far
FindLoop(target, type, timeout, requireVisible, scrollY, elapsed, scrolled) ==
  IF ~(elapsed < timeout) THEN NoMatch(scrollY, elapsed, scrolled)
  ELSE AfterPoll(target, type, timeout, requireVisible, scrollY, elapsed,
                 scrolled, PollOnce(target, type, requireVisible, scrollY))

\* the loop after a pass that ended as p.  A pass that returned nothing
\* and left the page where it was is repeated unchanged until the timeout:
\* rounds passes in all, each taking p.elapsed
AfterPoll(target, type, timeout, requireVisible, scrollY, elapsed, scrolled, p) ==
  IF p.element # NoElement
  THEN Resolved(p.element, p.score, p.scrollY, elapsed + p.elapsed,
                scrolled \o p.scrolled)
  ELSE IF p.scrollY = scrollY
  THEN NoMatch(scrollY,
               elapsed + Rounds(timeout - elapsed, p.elapsed) * p.elapsed,
               scrolled
                 \o Repeat(p.scrolled, Rounds(timeout - elapsed, p.elapsed)))
  ELSE FindLoop(target, type, timeout, requireVisible, p.scrollY,
                elapsed + p.elapsed, scrolled \o p.scrolled)

\* ElementResolver.findElement(target, {type, timeout, requireVisible})
ResolverFindElement(target, type, timeout, requireVisible, scrollY) ==
  FindLoop(NormalizeTarget(target), type, timeout, requireVisible, scrollY,
           0, <<>>)

\* an ElementMatch: the element, its score and the tier of the score
ElementMatch(element, score) ==
  [element |-> element, score |-> score, confidence |-> getConfidence(score)]

\* the null findElement returns
NullMatch == [element |-> NoElement, score |-> 0, confidence |-> Undefined]

RECURSIVE RankFrom(_)
\* the matches of scoreAllElements after the descending sort: the best of
\* the scores, then the ranking of the others
RankFrom(scores) ==
  IF BestOf(scores) = NoElement THEN <<>>
  ELSE <<ElementMatch(BestOf(scores), scores[BestOf(scores)])>>
       \o RankFrom([scores EXCEPT ![BestOf(scores)] = 0])

\* scoreAllElements
scoreAllElements(target, type, scrollY) ==
  RankFrom(ScoresOf(target, type, scrollY))

Min(a, b) == IF a <= b THEN a ELSE b

\* findMultipleElements without its filter on the low threshold
findMultipleUnfiltered(target, maxResults, type, scrollY) ==
  LET matches == scoreAllElements(NormalizeTarget(target), type, scrollY)
  IN  SubSeq(matches, 1, Min(maxResults, Len(matches)))

\* ElementResolver.findMultipleElements(target, maxResults, {type})
findMultipleElements(target, maxResults, type, scrollY) ==
  LET matches == scoreAllElements(NormalizeTarget(target), type, scrollY)
      kept == SelectSeq(matches, LAMBDA m : m.score >= thresholdLow)
  IN  SubSeq(kept, 1, Min(maxResults, Len(kept)))

\* no resolver call in flight
NotResolving ==
  [ phase |-> "idle", target |-> Undefined, type |-> "any", timeout |-> 0,
    requireVisible |-> TRUE, startTime |-> 0, maxResults |-> 0,
    match |-> NullMatch, matches |-> <<>>, changes |-> 0, signals |-> 0 ]

\* ------------------------------------------------------ Human Interactor
\* An AutomationAction as it arrives in a plan.  kind tells a JSON object
\* from the malformed entries null and a number; absent fields are Undefined
\* (strings), FALSE (flags) and 0 (timeout: `action.timeout || d`).
Action(act) ==
  [ kind |-> "object", act |-> act, target |-> Undefined, text |-> Undefined,
    to |-> Undefined, perChar |-> FALSE, confirm |-> FALSE, timeout |-> 0,
    waitMs |-> 0 ]

NullEntry == [Action(Undefined) EXCEPT !.kind = "null"]
NumberEntry == [Action(Undefined) EXCEPT !.kind = "number"]

\* action.act: a property read, which throws on null
ActOf(action) == action.act

ActionResult(success, message, element, error) ==
  [ success |-> success, message |-> message, element |-> element,
    error |-> error ]

\* one entry of the page-effect log: a dispatched event or a DOM call
Effect(type, el, key) == [type |-> type, el |-> el, key |-> key]

\* lastFocusedElement, the interaction history, the page state the engine
\* reads and writes, and the outcome of the handler that just ran
Outcome(result, w) == [result |-> result, w |-> w]

\* the call elementResolver.findElement(...) as it shows in the effect log
ResolverCall == Effect("resolver.findElement", NoElement, "")

\* the world after a resolver call: the page scrolled, time passed
AfterResolve(w, m) ==
  [ w EXCEPT !.scrollY = m.scrollY, !.now = w.now + m.elapsed,
             !.effects = Append(w.effects, ResolverCall)
               \o [i \in 1..Len(m.scrolled)
                     |-> Effect("scrollIntoView", m.scrolled[i], "")] ]

\* getMatchReason
getMatchReason(e, target) ==
  LET aria == AttrLower(e, "ariaLabel") # Undefined
                /\ Includes(ToLowerCase(document[e].attrs.ariaLabel), target)
      lab == \E i \in 1..Len(getAssociatedLabels(e)) :
               Includes(ToLowerCase(TextContent(getAssociatedLabels(e)[i])),
                        target)
      name == HasAttribute(e, "name")
                /\ Includes(ToLowerCase(document[e].attrs.name), target)
      ph == HasAttribute(e, "placeholder")
                /\ Includes(ToLowerCase(document[e].attrs.placeholder), target)
      r1 == IF aria THEN <<"aria-label match">> ELSE <<>>
      r2 == IF lab THEN <<"associated label">> ELSE <<>>
      r3 == IF name THEN <<"name attribute">> ELSE <<>>
      r4 == IF ph THEN <<"placeholder text">> ELSE <<>>
      rs == r1 \o r2 \o r3 \o r4
      Join[i \in 0..Len(rs)] ==
        IF i = 0 THEN ""
        ELSE IF i = 1 THEN rs[1]
        ELSE Join[i - 1] \o ", " \o rs[i]
  IN  IF rs = <<>> THEN "nearby text or element type" ELSE Join[Len(rs)]

\* How a handler arrives at its element: missed when a target was given
\* and the resolver returned null; else element is the match, or
\* lastFocusedElement when the action names no target; w is the world
\* after the resolver call.
FromMatch(m, w) ==
  [ missed |-> m.element = NoElement, element |-> m.element,
    confidence |-> m.confidence, w |-> AfterResolve(w, m) ]

\* a handler that falls back on document.activeElement when the action
\* names no target
ResolutionFromActive(action, type, timeout, w) ==
  IF Falsy(action.target)
  THEN [ missed |-> FALSE, element |-> w.activeElement,
         confidence |-> "low", w |-> w ]
  ELSE FromMatch(ResolverFindElement(action.target, type, timeout, TRUE,
                                     w.scrollY), w)

Resolution(action, type, timeout, w) ==
  IF Falsy(action.target)
  THEN [ missed |-> FALSE, element |-> w.lastFocusedElement,
         confidence |-> "low", w |-> w ]
  ELSE FromMatch(ResolverFindElement(action.target, type, timeout, TRUE,
                                     w.scrollY), w)

findResolved(action, r) ==
  IF ~r.missed
  THEN Outcome(
         ActionResult(TRUE,
           "Found element: "
             \o getMatchReason(r.element, NormalizeTarget(action.target))
             \o " (confidence: " \o r.confidence \o ")",
           r.element, Undefined),
         [r.w EXCEPT !.lastFocusedElement = r.element])
  ELSE Outcome(
         ActionResult(FALSE,
           "Could not find element matching \"" \o action.target \o "\"",
           NoElement, "Element not found"),
         r.w)

\* HumanInteractor.findElement
findElement(action, w) ==
  IF Falsy(action.target)
  THEN Outcome(ActionResult(FALSE, "No target specified for find action",
                            NoElement, Undefined), w)
  ELSE findResolved(action,
         Resolution(action, "any",
                    IF action.timeout # 0 THEN action.timeout
                    ELSE defaultTimeout, w))

\* the scroll-settle wait: resolved 150 ms after the last scroll event, and
\* at the 1000 ms ceiling at the latest (and when no scroll event fires)
scrollQuietMs == 150
scrollCeilingMs == 1000
\* how long a smooth scroll keeps firing scroll events
smoothScrollMs == 300

waitForScrollComplete(scrolledPage) ==
  IF scrolledPage /\ smoothScrollMs + scrollQuietMs < scrollCeilingMs
  THEN smoothScrollMs + scrollQuietMs
  ELSE scrollCeilingMs

\* element.scrollIntoView(scrollBehavior), then waitForScrollComplete
scrollTo(element, block, w) ==
  [ w EXCEPT
      !.effects = Append(w.effects, Effect("scrollIntoView", element, "")),
      !.scrollY = ScrollIntoView(element, block, w.scrollY),
      !.now = w.now + waitForScrollComplete(
                        ScrollIntoView(element, block, w.scrollY) # w.scrollY) ]

scrollResolved(action, r) ==
  IF r.missed
  THEN Outcome(
         ActionResult(FALSE,
           "Could not find element \"" \o action.target \o "\" to scroll to",
           NoElement, Undefined), r.w)
  ELSE IF r.element = NoElement
  THEN Outcome(ActionResult(FALSE, "No element to scroll to",
                            NoElement, Undefined), r.w)
  ELSE Outcome(
         ActionResult(TRUE,
           "Scrolled to element ("
             \o (IF Falsy(action.to) THEN "center" ELSE action.to) \o ")",
           r.element, Undefined),
         scrollTo(r.element,
                  IF action.to = "top" THEN "start"
                  ELSE IF action.to = "bottom" THEN "end" ELSE "center",
                  r.w))

\* HumanInteractor.scrollToElement
scrollToElement(action, w) ==
  scrollResolved(action, Resolution(action, "any", defaultTimeout, w))

\* canReceiveFocus
canReceiveFocus(e) ==
  \/ TagName(e) \in {"input", "textarea", "select", "button", "a"}
  \/ HasAttribute(e, "tabindex")
  \/ HasAttribute(e, "contenteditable")

\* whether the browser lets element.focus() move the focus at all
BrowserFocusable(e) ==
  /\ canReceiveFocus(e)
  /\ Attached(e)
  /\ ~document[e].displayNone
  /\ ~HasAttribute(e, "disabled")

\* document.activeElement after element.focus(): the element, unless the
\* browser refuses or the page moves the focus away again (focusKept)
AfterFocus(e, w, focusKept) ==
  IF BrowserFocusable(e) /\ focusKept THEN e ELSE w.activeElement

\* element.focus()
callFocus(element, w, focusKept) ==
  [ w EXCEPT
      !.effects = Append(w.effects, Effect("focus", element, "")),
      !.activeElement = AfterFocus(element, w, focusKept) ]

\* a check after element.focus() that remembers the element whether or not
\* the focus arrived
focusVerifiedRemembering(element, w) ==
  IF w.activeElement = element
  THEN Outcome(ActionResult(TRUE, "Element focused successfully",
                            element, Undefined),
               [w EXCEPT !.lastFocusedElement = element])
  ELSE Outcome(ActionResult(FALSE, "Failed to focus element",
                            NoElement, Undefined),
               [w EXCEPT !.lastFocusedElement = element])

\* a focus action that reports success without looking at
\* document.activeElement
focusVerifiedAlways(element, w) ==
  Outcome(ActionResult(TRUE, "Element focused successfully",
                       element, Undefined),
          [w EXCEPT !.lastFocusedElement = element])

\* the check of document.activeElement after element.focus()
focusVerified(element, w) ==
  IF w.activeElement = element
  THEN Outcome(ActionResult(TRUE, "Element focused successfully",
                            element, Undefined),
               [w EXCEPT !.lastFocusedElement = element])
  ELSE Outcome(ActionResult(FALSE, "Failed to focus element",
                            NoElement, Undefined), w)

focusResolved(action, r, env) ==
  IF r.missed
  THEN Outcome(
         ActionResult(FALSE,
           "Could not find element \"" \o action.target \o "\" to focus",
           NoElement, Undefined), r.w)
  ELSE IF r.element = NoElement
  THEN Outcome(ActionResult(FALSE, "No element to focus",
                            NoElement, Undefined), r.w)
  ELSE IF ~canReceiveFocus(r.element)
  THEN Outcome(ActionResult(FALSE, "Element cannot receive focus",
                            NoElement, Undefined), r.w)
  ELSE focusVerified(r.element, callFocus(r.element, r.w, env.focusKept))

\* HumanInteractor.focusElement
focusElement(action, w, env) ==
  focusResolved(action, Resolution(action, "any", defaultTimeout, w), env)

sensitiveTypes ==
  {"password", "credit-card-number", "cc-number", "cc-exp", "cc-csc"}
paymentFields == {"cc-name", "cc-number", "cc-exp", "cc-csc", "cc-type"}

\* isSensitiveField
isSensitiveField(e) ==
  IF ~HasTypeProperty(e) THEN FALSE
  ELSE IF ToLowerCase(TypeProperty(e)) \in sensitiveTypes THEN TRUE
  ELSE /\ HasAttribute(e, "autocomplete")
       /\ \E field \in paymentFields :
            Includes(ToLowerCase(document[e].attrs.autocomplete), field)

\* randomDelay(min, max): the shortest or the longest delay of the range
randomDelay(min, max, slow) == IF slow THEN max ELSE min

\* element.value = v, where the element has a value property
SetValue(value, e, v) == IF HasValueProperty(e) THEN [value EXCEPT ![e] = v] ELSE value

RECURSIVE typeCharByChar(_, _, _, _, _)
\* typeCharByChar from character i of text on, without the final change
typeCharByChar(e, text, i, w, slow) ==
  IF i > Len(text) THEN w
  ELSE
    LET char == SubSeq(text, i, i)
    IN  typeCharByChar(e, text, i + 1,
          [ w EXCEPT
              !.effects = w.effects
                \o << Effect("keydown", e, char), Effect("keypress", e, char),
                      Effect("input", e, ""), Effect("keyup", e, char) >>,
              !.value = SetValue(w.value, e, w.value[e] \o char),
              !.now = w.now + randomDelay(15, 40, slow) ],
          slow)

RECURSIVE typeWordByWord(_, _, _, _, _)
\* typeWordByWord from word i of words on, without the final change
typeWordByWord(e, words, i, w, slow) ==
  IF i > Len(words) THEN w
  ELSE
    LET typed == w.value[e] \o words[i]
                   \o (IF i < Len(words) THEN " " ELSE "")
    IN  typeWordByWord(e, words, i + 1,
          [ w EXCEPT
              !.effects = Append(w.effects, Effect("input", e, "")),
              !.value = SetValue(w.value, e, typed),
              !.now = w.now + Len(words[i]) * randomDelay(5, 15, slow)
                        + randomDelay(50, 150, slow) ],
          slow)

\* dispatchChangeEvent
dispatchChangeEvent(e, w) ==
  [w EXCEPT !.effects = Append(w.effects, Effect("change", e, ""))]

sensitiveMessage ==
  "Cannot type into password or payment fields for security reasons"

\* element.value = '' where the element has a value property
clearValue(element, w) ==
  [w EXCEPT !.value = SetValue(w.value, element, "")]

\* typing that dispatches its change event before the first character
typeNaturallyChangeFirst(action, element, w, env) ==
  IF action.perChar
  THEN typeCharByChar(element, action.text, 1,
                      dispatchChangeEvent(element, w), env.slow)
  ELSE typeWordByWord(element, SplitSpaces(action.text), 1,
                      dispatchChangeEvent(element, w), env.slow)

\* the typing itself, in either mode, and the final change event
typeNaturally(action, element, w, env) ==
  dispatchChangeEvent(element,
    IF action.perChar
    THEN typeCharByChar(element, action.text, 1, w, env.slow)
    ELSE typeWordByWord(element, SplitSpaces(action.text), 1, w, env.slow))

\* typeText with the sensitive-field gate placed after element.focus()
typeIntoFocusFirst(action, element, w, env) ==
  IF isSensitiveField(element)
  THEN Outcome(ActionResult(FALSE, sensitiveMessage, NoElement,
                            "Sensitive field restriction"),
               callFocus(element, w, env.focusKept))
  ELSE Outcome(
         ActionResult(TRUE, "Typed \"" \o action.text \o "\" into element",
                      element, Undefined),
         typeNaturally(action, element,
           clearValue(element, callFocus(element, w, env.focusKept)), env))

\* the part of typeText after the element is known
typeInto(action, element, w, env) ==
  IF isSensitiveField(element)
  THEN Outcome(ActionResult(FALSE, sensitiveMessage, NoElement,
                            "Sensitive field restriction"), w)
  ELSE Outcome(
         ActionResult(TRUE, "Typed \"" \o action.text \o "\" into element",
                      element, Undefined),
         typeNaturally(action, element,
           clearValue(element, callFocus(element, w, env.focusKept)), env))

typeResolved(action, r, env) ==
  IF r.missed
  THEN Outcome(
         ActionResult(FALSE,
           "Could not find input element \"" \o action.target \o "\"",
           NoElement, Undefined), r.w)
  ELSE IF r.element = NoElement
  THEN Outcome(ActionResult(FALSE, "No element to type into",
                            NoElement, Undefined), r.w)
  ELSE typeInto(action, r.element, r.w, env)

\* typeText without its check of action.text
typeTextUnchecked(action, w, env) ==
  typeResolved(action, Resolution(action, "input", defaultTimeout, w), env)

\* HumanInteractor.typeText
typeText(action, w, env) ==
  IF Falsy(action.text)
  THEN Outcome(ActionResult(FALSE, "No text specified for type action",
                            NoElement, Undefined), w)
  ELSE typeResolved(action, Resolution(action, "input", defaultTimeout, w),
                    env)

\* a confirmation check that never finds the action confirmed
isConfirmedNever(e) == FALSE

\* isConfirmedAction: "for now, assume all actions are confirmed"
isConfirmedAction(e) == TRUE

\* getOptimalClickTarget
getOptimalClickTarget(e) ==
  IF TagName(e) = "input" /\ getAssociatedLabels(e) # <<>>
  THEN getAssociatedLabels(e)[1]
  ELSE e

\* dispatchMouseEvent(clickTarget, 'mousedown'), up to the await
clickDown(clickTarget, w) ==
  [w EXCEPT !.effects = Append(w.effects, Effect("mousedown", clickTarget, ""))]

\* a click that releases before it presses
clickUpReordered(clickTarget, w, slow) ==
  [ w EXCEPT
      !.effects = w.effects
        \o << Effect("click", clickTarget, ""),
              Effect("mouseup", clickTarget, "") >>,
      !.now = w.now + randomDelay(50, 100, slow) ]

\* the random delay between press and release, then mouseup and click
clickUp(clickTarget, w, slow) ==
  [ w EXCEPT
      !.effects = w.effects
        \o << Effect("mouseup", clickTarget, ""),
              Effect("click", clickTarget, "") >>,
      !.now = w.now + randomDelay(50, 100, slow) ]

clickedResult(clickTarget) ==
  ActionResult(TRUE, "Element clicked successfully", clickTarget, Undefined)

\* a click that also calls form.submit() on the target's form
dispatchClickSubmitting(clickTarget, w, slow) ==
  Outcome(
    ActionResult(TRUE, "Element clicked successfully", clickTarget,
                 Undefined),
    [ w EXCEPT
        !.effects = w.effects
          \o << Effect("mousedown", clickTarget, ""),
                Effect("mouseup", clickTarget, ""),
                Effect("click", clickTarget, ""),
                Effect("submit", clickTarget, "") >>,
        !.now = w.now + randomDelay(50, 100, slow) ])

\* mousedown, a random delay, mouseup, click on the click target
dispatchClick(clickTarget, w, slow) ==
  Outcome(clickedResult(clickTarget),
          clickUp(clickTarget, clickDown(clickTarget, w), slow))

clickResolved(action, r, env) ==
  IF r.missed
  THEN Outcome(
         ActionResult(FALSE,
           "Could not find clickable element \"" \o action.target \o "\"",
           NoElement, Undefined), r.w)
  ELSE IF r.element = NoElement
  THEN Outcome(ActionResult(FALSE, "No element to click",
                            NoElement, Undefined), r.w)
  ELSE IF action.confirm /\ ~isConfirmedAction(r.element)
  THEN Outcome(
         ActionResult(FALSE,
           "Destructive action requires explicit user confirmation",
           NoElement, "Confirmation required"), r.w)
  ELSE dispatchClick(getOptimalClickTarget(r.element), r.w, env.slow)

\* HumanInteractor.clickElement
clickElement(action, w, env) ==
  clickResolved(action, Resolution(action, "button", defaultTimeout, w), env)

\* the wait pressTab makes for the focus to change
tabWaitMs == 100

\* HumanInteractor.pressTab: env.tabTo is document.activeElement after the
\* wait (a synthetic Tab moves no focus by itself; page scripts may)
pressTab(action, w, env) ==
  LET activeElement == w.activeElement
      newActiveElement == env.tabTo
  IN  Outcome(
        ActionResult(TRUE, "Tab key pressed", newActiveElement, Undefined),
        [ w EXCEPT
            !.effects = w.effects
              \o << Effect("keydown", activeElement, "Tab"),
                    Effect("keyup", activeElement, "Tab") >>,
            !.now = w.now + tabWaitMs,
            !.activeElement = newActiveElement,
            !.lastFocusedElement =
              IF newActiveElement # activeElement THEN newActiveElement
              ELSE w.lastFocusedElement ])

\* waitFor's default delay
defaultWaitMs == 1000

\* HumanInteractor.waitFor
waitFor(action, w) ==
  LET timeout == IF action.timeout # 0 THEN action.timeout ELSE defaultWaitMs
  IN  Outcome(
        ActionResult(TRUE, "Waited for " \o ToString(timeout) \o "ms",
                     NoElement, Undefined),
        [w EXCEPT !.now = w.now + timeout])

\* what the environment decides during one executeAction call
\*   throws     the handler's first DOM query throws
\*   focusKept  the focus stays where element.focus() put it
\*   slow       the random delays take their longest (else shortest) value
\*   tabTo      document.activeElement after pressTab's wait
Env(throws, focusKept, slow, tabTo) ==
  [throws |-> throws, focusKept |-> focusKept, slow |-> slow, tabTo |-> tabTo]

\* whether the handler of an action starts with a query of the document
\* (the resolver's querySelectorAll)
QueriesDom(action) ==
  /\ action.kind = "object"
  /\ action.act \in {"find", "scroll", "focus", "type", "click"}
  /\ ~Falsy(action.target)
  /\ (action.act = "type" => ~Falsy(action.text))

\* where a page's scripts may leave the focus after a Tab key event
TabOutcomes(w) == {w.activeElement, 2, Body}

EnvChoices(action, w) ==
  { Env(t, f, s, to) :
      t \in (IF QueriesDom(action) THEN BOOLEAN ELSE {FALSE}),
      f \in (IF action.act \in {"focus", "type"} THEN BOOLEAN ELSE {TRUE}),
      s \in (IF action.act \in {"type", "click"} THEN BOOLEAN ELSE {FALSE}),
      to \in (IF action.act = "tab" THEN TabOutcomes(w)
              ELSE {w.activeElement}) }

\* the message of the error a failing DOM query throws
domErrorMessage == "Failed to execute 'querySelectorAll' on 'Document'"
\* the message of the TypeError reading a property of null throws
nullErrorMessage == "Cannot read properties of null (reading 'act')"

\* the switch of executeAction with a default branch that leaves the act out
\* of its message
DispatchDefaultUnnamed(action, w, env) ==
  CASE ActOf(action) = "find" -> findElement(action, w)
    [] ActOf(action) = "scroll" -> scrollToElement(action, w)
    [] ActOf(action) = "focus" -> focusElement(action, w, env)
    [] ActOf(action) = "type" -> typeText(action, w, env)
    [] ActOf(action) = "click" -> clickElement(action, w, env)
    [] ActOf(action) = "tab" -> pressTab(action, w, env)
    [] ActOf(action) = "wait" -> waitFor(action, w)
    [] OTHER ->
         Outcome(ActionResult(FALSE, "Unknown action", NoElement,
                              "Invalid action type"), w)

\* the switch of executeAction
Dispatch(action, w, env) ==
  CASE ActOf(action) = "find" -> findElement(action, w)
    [] ActOf(action) = "scroll" -> scrollToElement(action, w)
    [] ActOf(action) = "focus" -> focusElement(action, w, env)
    [] ActOf(action) = "type" -> typeText(action, w, env)
    [] ActOf(action) = "click" -> clickElement(action, w, env)
    [] ActOf(action) = "tab" -> pressTab(action, w, env)
    [] ActOf(action) = "wait" -> waitFor(action, w)
    [] OTHER ->
         Outcome(ActionResult(FALSE,
                   "Unknown action: " \o TemplateString(ActOf(action)),
                   NoElement, "Invalid action type"), w)

\* the catch block of executeAction
CatchResult(action, message) ==
  ActionResult(FALSE, "Error executing " \o TemplateString(ActOf(action)),
               NoElement, message)

\* this.interactionHistory.push({action, result, timestamp})
Record(w, action, result) ==
  [ w EXCEPT !.interactionHistory =
      Append(w.interactionHistory,
             [action |-> action, result |-> result, timestamp |-> w.now]) ]

NoResult == ActionResult(FALSE, Undefined, NoElement, Undefined)

\* how an executeAction promise settles: fulfilled with result, or rejected
\* with an error whose message is error
Settled(rejected, result, error, w) ==
  [rejected |-> rejected, result |-> result, error |-> error, w |-> w]

\* the result is recorded in the history and returned
Fulfilled(action, out) ==
  Settled(FALSE, out.result, Undefined, Record(out.w, action, out.result))

\* HumanInteractor.executeAction.  Reading action.act of null throws inside
\* the try block and again inside the catch block, which builds its message
\* from action.act: the promise is rejected and nothing is recorded.
executeAction(action, w, env) ==
  IF action.kind = "null"
  THEN Settled(TRUE, NoResult, nullErrorMessage, w)
  ELSE IF env.throws
  THEN Settled(FALSE, CatchResult(action, domErrorMessage), Undefined,
               Record([w EXCEPT !.effects = Append(w.effects, ResolverCall)],
                      action, CatchResult(action, domErrorMessage)))
  ELSE Fulfilled(action, Dispatch(action, w, env))

\* ------------------------------------------------------------- the plans
FindEmail == [Action("find") EXCEPT !.target = "email"]
FindPassword == [Action("find") EXCEPT !.target = " Password"]
FindMissing == [Action("find") EXCEPT !.target = "missing"]
TypeWords == [Action("type") EXCEPT !.text = "hi yo"]
TypePassword ==
  [Action("type") EXCEPT !.target = "Password", !.text = "secret"]
TypeCardNote ==
  [Action("type") EXCEPT !.target = "card note", !.text = "41",
                         !.perChar = TRUE]
TypeNameOnCard ==
  [Action("type") EXCEPT !.target = "name on card", !.text = "x"]
ClickSave == [Action("click") EXCEPT !.target = "save", !.confirm = TRUE]
Hover == Action("hover")
Wait == Action("wait")
Focus == Action("focus")
Tab == Action("tab")
ScrollTop == [Action("scroll") EXCEPT !.to = "top"]
FocusSave == [Action("focus") EXCEPT !.target = "save"]
\* entries that lack an operand: a find and a click without target, a type
\* without text
FindNothing == Action("find")
ClickFocused == Action("click")
TypeNothing == [Action("type") EXCEPT !.target = "email"]
\* a wait step as the planner writes it, with its delay in waitMs
WaitShort == [Action("wait") EXCEPT !.waitMs = 250]
\* a type step whose text has 33 characters
TypeLong ==
  [Action("type") EXCEPT !.text = "the quick brown fox jumps over it"]

PlanEntries ==
  { FindEmail, FindPassword, FindMissing, TypeWords, TypePassword,
    TypeCardNote, TypeNameOnCard, ClickSave, Hover, Wait, Focus, Tab,
    ScrollTop, FocusSave, FindNothing, ClickFocused, TypeNothing, NullEntry,
    NumberEntry }

\* a payload of EXECUTE_ACTION_PLAN: an array, null/undefined, or an object
\* that is no array (whose length is undefined)
ArrayPayload(items) == [kind |-> "array", items |-> items]
NullPayload == [kind |-> "null", items |-> <<>>]
ObjectPayload == [kind |-> "object", items |-> <<>>]

\* plans of three steps: find, type, click on the e-mail field; the same
\* with the typing aimed at the password field; the password field found
\* and then typed into as lastFocusedElement
LongPlans ==
  { <<FindEmail, TypeWords, ClickSave>>,
    <<FindEmail, TypePassword, ClickSave>>,
    <<FindPassword, TypeWords, Tab>> }

\* plans with a wait of 250 ms and with a long text to type, and a plan
\* that focuses the Save button, presses Tab and focuses what it remembers
EdgePlans ==
  { <<WaitShort>>, <<TypeLong>>, <<FindEmail, TypeLong>>,
    <<FocusSave, Tab, Focus>> }

Payloads ==
  {NullPayload, ObjectPayload}
  \cup UNION { {ArrayPayload(p) : p \in [1..n -> PlanEntries]} : n \in 0..MaxPlanLen }
  \cup {ArrayPayload(p) : p \in LongPlans \cup EdgePlans}

\* ------------------------------------------------------- the plan panel
\* The characters U+2026 (horizontal ellipsis) and U+201C, U+201D (curly
\* quotes) of the source's template strings, one UTF-16 code unit each,
\* are written ~, { and } here: the strings of this module are ASCII.
Ellipsis == "~"
Ldquo == "{"
Rdquo == "}"

\* truncate with a cut that keeps length characters before the ellipsis
truncateKeepingLength(v, length) ==
  IF Len(v) <= length THEN v ELSE SubSeq(v, 1, length) \o Ellipsis

\* truncate(value, length) of describeAutomationAction
truncate(v, length) ==
  IF Len(v) <= length THEN v ELSE SubSeq(v, 1, length - 1) \o Ellipsis

\* the default of truncate's length parameter
previewLength == 32

\* describeAutomationAction (content.ts and background.ts hold the same text)
describeAutomationAction(action) ==
  CASE action.act = "find" ->
         IF ~Falsy(action.target)
         THEN "Find " \o Ldquo \o action.target \o Rdquo ELSE "Find element"
    [] action.act = "scroll" ->
         LET destination == IF ~Falsy(action.to) THEN action.to ELSE "center"
         IN  IF ~Falsy(action.target)
             THEN "Scroll to " \o Ldquo \o action.target \o Rdquo
                  \o " (" \o destination \o ")"
             ELSE "Scroll to " \o destination
    [] action.act = "focus" ->
         IF ~Falsy(action.target)
         THEN "Focus " \o Ldquo \o action.target \o Rdquo ELSE "Focus element"
    [] action.act = "type" ->
         LET preview == IF ~Falsy(action.text)
                        THEN truncate(action.text, previewLength) ELSE "text"
         IN  IF ~Falsy(action.target)
             THEN "Type " \o Ldquo \o preview \o Rdquo \o " in "
                  \o Ldquo \o action.target \o Rdquo
             ELSE "Type " \o Ldquo \o preview \o Rdquo
    [] action.act = "click" ->
         LET target == IF ~Falsy(action.target)
                       THEN Ldquo \o action.target \o Rdquo ELSE "element"
         IN  IF action.confirm THEN "Confirm click on " \o target
             ELSE "Click " \o target
    [] action.act = "tab" -> "Press Tab"
    [] action.act = "wait" -> "Wait " \o ToString(action.waitMs) \o "ms"
    [] OTHER -> action.act

\* ------------------------------------------------- the plan-execution loop

VARIABLES
  payload,              \* actionPlan, the argument of executeActionPlan
  pc,                   \* where executeActionPlan stands
  index,                \* the loop index (0-based)
  stepResults,          \* ExecutionStepResult[]
  completed,
  abortReason,
  settled,              \* how the awaited executeAction promise settled
  returned,             \* the value executeActionPlan returned
  currentPlanSummary,
  startTime,            \* performance.now() at loop start
  calls,                \* the indices executeAction was called with, in order
  lastFocusedElement,   \* HumanInteractor.lastFocusedElement
  interactionHistory,   \* HumanInteractor.interactionHistory
  effects,              \* events dispatched and DOM calls made, in order
  value,                \* element.value of every element
  activeElement,        \* document.activeElement
  scrollY,              \* window.scrollY
  now                   \* the clock, in milliseconds

\* a call of the resolver made on its own: its arguments, where its polling
\* loop stands and what it returned
VARIABLE resolving

\* one waitForScrollComplete() promise and the timers behind it: the time
\* since the call in ms, the due time of scrollTimer (NoTimer when unset or
\* fired), whether checkScroll is still registered, whether the ceiling
\* timeout is still pending, and for the record the time of the last scroll
\* event before the promise settled and the time the promise settled
VARIABLE scrollWait

NoTimer == -1

NotWaiting ==
  [ phase |-> "idle", clock |-> 0, scrollTimer |-> NoTimer,
    listening |-> FALSE, ceilingPending |-> FALSE, lastScroll |-> NoTimer,
    resolvedAt |-> NoTimer, events |-> 0 ]

\* the content script around the loop: the plan panel and the plan runs
VARIABLES
  currentActionPlan,    \* the plan the panel shows (NoPlan for null)
  isExecutingPlan,
  safeMode,             \* settings.safeMode, kept by the background script
  runs                  \* the executeActionPlan calls made, in call order

engineVars ==
  <<lastFocusedElement, interactionHistory, effects, value, activeElement,
    scrollY, now, document>>
loopVars ==
  <<payload, pc, index, stepResults, completed, abortReason, settled,
    returned, currentPlanSummary, startTime, calls>>
assistVars == <<currentActionPlan, isExecutingPlan, safeMode, runs>>
vars == <<loopVars, engineVars, assistVars, resolving, scrollWait>>

\* ExecutionAbortReason
AbortUnknown == "unknown_error"
AbortPermissionDenied == "permission_denied"
AbortResolverConfidenceLow == "resolver_confidence_low"

\* the state the engine handlers read and write, as one record
World ==
  [ lastFocusedElement |-> lastFocusedElement,
    interactionHistory |-> interactionHistory, effects |-> effects,
    value |-> value, activeElement |-> activeElement, scrollY |-> scrollY,
    now |-> now ]

\* plan.length: undefined for an object that is no array, and then
\* `index < plan.length` is false
PlanLength == IF payload.kind = "array" THEN Len(payload.items) ELSE 0

\* plan[i], 0-based
PlanAt(i) == payload.items[i + 1]

StepResult(action, status, message) ==
  [action |-> action, status |-> status, message |-> message]

\* result.error ?? result.message
FailureMessage(result) ==
  IF result.error # Undefined THEN result.error ELSE result.message

\* a loop that records no abort reason
AbortReasonUnset(settlement) == Undefined

\* the abort reason the loop records for a step that failed
AbortReasonOf(settlement) == AbortUnknown

\* a loop without the break
ContinuesAfterFailure == FALSE

\* whether the loop leaves (break) after a step that failed
BreaksOnFailure == TRUE

RECURSIVE SkippedFrom(_, _)
\* the skipped entries pushed for plan[i..]
SkippedFrom(items, i) ==
  IF i >= Len(items) THEN <<>>
  ELSE <<StepResult(items[i + 1], "skipped", Undefined)>>
       \o SkippedFrom(items, i + 1)

\* a loop end that pushes no skipped entries
WithoutSkipped(steps, done, items) == steps

\* stepResults after the loop: the rest of the plan is pushed as skipped
\* when the plan did not complete
WithSkipped(steps, done, items) ==
  IF ~done THEN steps \o SkippedFrom(items, Len(steps)) ELSE steps

ExecutionSummary(done, reason, steps, durationMs) ==
  [ completed |-> done, abortReason |-> reason, steps |-> steps,
    durationMs |-> durationMs ]

NoSummary == ExecutionSummary(FALSE, Undefined, <<>>, 0)
NotReturned == [success |-> FALSE, summary |-> NoSummary]

\* this.currentActionPlan = null
NoPlan == <<>>

\* element.value of every element when the plan arrives: the e-mail and the
\* password field are filled in
InitialValue ==
  [e \in 1..Len(InitialDocument) |-> IF e \in {2, 3} THEN "old" ELSE ""]

Init ==
  /\ payload \in Payloads
  /\ pc = "idle"
  /\ index = 0
  /\ stepResults = <<>>
  /\ completed = TRUE
  /\ abortReason = Undefined
  /\ settled = [rejected |-> FALSE, result |-> NoResult, error |-> Undefined]
  /\ returned = NotReturned
  /\ currentPlanSummary = NoSummary
  /\ startTime = 0
  /\ calls = <<>>
  /\ lastFocusedElement = NoElement
  /\ interactionHistory = <<>>
  /\ effects = <<>>
  /\ value = InitialValue
  /\ activeElement = Len(InitialDocument)
  /\ scrollY = 0
  /\ now = 0
  /\ document = InitialDocument
  /\ currentActionPlan = NoPlan
  /\ isExecutingPlan = FALSE
  /\ safeMode = FALSE
  /\ runs = <<>>
  /\ resolving = NotResolving
  /\ scrollWait = NotWaiting

\* executeActionPlan is called: the locals are set up and plan.length is
\* read, which throws when the payload is null or undefined
EnterPlan ==
  /\ UNCHANGED <<assistVars, resolving, scrollWait>>
  /\ pc = "idle"
  /\ pc' = IF payload.kind = "null" THEN "rejected" ELSE "loop"
  /\ startTime' = now
  /\ UNCHANGED <<payload, index, stepResults, completed, abortReason, settled,
                 returned, currentPlanSummary, calls, engineVars>>

\* the loop test holds: executeAction(plan[index]) is called and awaited
CallExecuteAction ==
  /\ UNCHANGED <<assistVars, resolving, scrollWait>>
  /\ pc = "loop"
  /\ index < PlanLength
  /\ pc' = "awaiting"
  /\ calls' = Append(calls, index)
  /\ UNCHANGED <<payload, index, stepResults, completed, abortReason, settled,
                 returned, currentPlanSummary, startTime, engineVars>>

\* the awaited executeAction call runs to its end
SettleExecuteAction ==
  /\ UNCHANGED <<assistVars, resolving, scrollWait>>
  /\ pc = "awaiting"
  /\ \E env \in EnvChoices(PlanAt(index), World) :
       \E s \in {executeAction(PlanAt(index), World, env)} :
           /\ settled' = [rejected |-> s.rejected, result |-> s.result,
                          error |-> s.error]
           /\ lastFocusedElement' = s.w.lastFocusedElement
           /\ interactionHistory' = s.w.interactionHistory
           /\ effects' = s.w.effects
           /\ value' = s.w.value
           /\ activeElement' = s.w.activeElement
           /\ scrollY' = s.w.scrollY
           /\ now' = s.w.now
  /\ UNCHANGED document
  /\ pc' = "resumed"
  /\ UNCHANGED <<payload, index, stepResults, completed, abortReason,
                 returned, currentPlanSummary, startTime, calls>>

\* the loop body after the await: the step is recorded
RecordStep ==
  /\ UNCHANGED <<assistVars, resolving, scrollWait>>
  /\ pc = "resumed"
  /\ IF ~settled.rejected /\ settled.result.success
     THEN /\ stepResults' = Append(stepResults,
                StepResult(PlanAt(index), "success", settled.result.message))
          /\ pc' = "pacing"
          /\ UNCHANGED <<completed, abortReason>>
     ELSE /\ completed' = FALSE
          /\ abortReason' = AbortReasonOf(settled)
          /\ stepResults' = Append(stepResults,
                StepResult(PlanAt(index), "failed",
                           IF settled.rejected THEN settled.error
                           ELSE FailureMessage(settled.result)))
          /\ pc' = IF BreaksOnFailure THEN "finalize" ELSE "pacing"
  /\ UNCHANGED <<payload, index, settled, returned, currentPlanSummary,
                 startTime, calls, engineVars>>

\* the 100 ms pacing delay after a successful step, then index++
pacingMs == 100

PacingDelay ==
  /\ UNCHANGED <<assistVars, resolving, scrollWait>>
  /\ pc = "pacing"
  /\ now' = now + pacingMs
  /\ index' = index + 1
  /\ pc' = "loop"
  /\ UNCHANGED <<payload, stepResults, completed, abortReason, settled,
                 returned, currentPlanSummary, startTime, calls,
                 lastFocusedElement, interactionHistory, effects, value,
                 activeElement, scrollY, document>>

\* the loop test fails: the loop is left
LoopExit ==
  /\ UNCHANGED <<assistVars, resolving, scrollWait>>
  /\ pc = "loop"
  /\ ~(index < PlanLength)
  /\ pc' = "finalize"
  /\ UNCHANGED <<payload, index, stepResults, completed, abortReason, settled,
                 returned, currentPlanSummary, startTime, calls, engineVars>>

\* the skipped steps are pushed, the summary is built, stored, rendered and
\* reported, and {success, summary} is returned
Finalize ==
  /\ UNCHANGED <<assistVars, resolving, scrollWait>>
  /\ pc = "finalize"
  /\ LET steps == WithSkipped(stepResults, completed, payload.items)
         summary == ExecutionSummary(completed, abortReason, steps,
                                     now - startTime)
     IN  /\ stepResults' = steps
         /\ currentPlanSummary' = summary
         /\ returned' = [success |-> summary.completed, summary |-> summary]
  /\ pc' = "returned"
  /\ UNCHANGED <<payload, index, completed, abortReason, settled, startTime,
                 calls, engineVars>>

Next ==
  \/ EnterPlan
  \/ CallExecuteAction
  \/ SettleExecuteAction
  \/ RecordStep
  \/ PacingDelay
  \/ LoopExit
  \/ Finalize

Spec == Init /\ [][Next]_vars

\* ------------------------------------------- a page that removes a node
\* While the loop sits in its pacing delay the page's own script removes
\* the node the engine remembers from the document; the focus, if it was
\* there, falls back to the body.
RemoveRememberedNode ==
  /\ pc = "pacing"
  /\ lastFocusedElement # NoElement
  /\ Attached(lastFocusedElement)
  /\ document' = [document EXCEPT ![lastFocusedElement].detached = TRUE]
  /\ activeElement' = IF activeElement = lastFocusedElement THEN Body
                      ELSE activeElement
  /\ UNCHANGED <<loopVars, assistVars, scrollWait, resolving, lastFocusedElement,
                 interactionHistory, effects, value, scrollY, now>>

DetachNext ==
  \/ EnterPlan
  \/ CallExecuteAction
  \/ SettleExecuteAction
  \/ RecordStep
  \/ PacingDelay
  \/ LoopExit
  \/ Finalize
  \/ RemoveRememberedNode

DetachSpec == Init /\ [][DetachNext]_vars

\* ----------------------------------------- the content script as a whole
\* The plan panel, the two entry points of executeActionPlan and the runs
\* they start, which share one HumanInteractor and one page and take turns
\* at their awaits.  A run here is one executeActionPlan call; its steps
\* are executeAction calls, and a click is taken in its two halves, before
\* and after the await between mousedown and mouseup.

\* most executeActionPlan calls made in one behaviour
MaxRuns == 2

\* the plans the assistant proposes, and the message carries
AssistPlans == { <<ClickSave>>, <<Wait>> }

\* what the environment decides during a step of a run: the delays take
\* their shortest value and no DOM query throws
AssistEnvChoices(action, w) ==
  {env \in EnvChoices(action, w) : ~env.slow /\ ~env.throws}

\* one executeActionPlan call: who made it, its plan, the loop index, where
\* it stands (ready | clicking | returned), whether a step failed, the
\* click in progress, and for each click of the run where in the effect log
\* its mousedown, mouseup and click are
Run(origin, plan) ==
  [ origin |-> origin, plan |-> plan, index |-> 0, phase |-> "ready",
    failed |-> FALSE, target |-> NoElement, slow |-> FALSE, clicks |-> <<>> ]

\* the engine's and the page's state become w
Becomes(w) ==
  /\ lastFocusedElement' = w.lastFocusedElement
  /\ interactionHistory' = w.interactionHistory
  /\ effects' = w.effects
  /\ value' = w.value
  /\ activeElement' = w.activeElement
  /\ scrollY' = w.scrollY
  /\ now' = w.now
  /\ UNCHANGED document

\* renderActionPlan(plan, ...): an empty or missing plan resets the panel
\* and the executing flag
RenderResets(plan) == plan = NoPlan

\* AI_RESPONSE with success: showAIResponse renders payload.plan
ShowAIResponse ==
  /\ UNCHANGED <<resolving, scrollWait>>
  /\ \E plan \in AssistPlans \cup {NoPlan} :
       /\ currentActionPlan' = plan
       /\ isExecutingPlan' = IF RenderResets(plan) THEN FALSE
                             ELSE isExecutingPlan
  /\ UNCHANGED <<safeMode, runs, loopVars, engineVars>>

\* showAIError and clearAIResponse: renderActionPlan(null, null, null)
ClearAIResponse ==
  /\ UNCHANGED <<resolving, scrollWait>>
  /\ currentActionPlan' = NoPlan
  /\ isExecutingPlan' = FALSE
  /\ UNCHANGED <<safeMode, runs, loopVars, engineVars>>

\* the user switches Safe Mode in the popup
ToggleSafeMode ==
  /\ UNCHANGED <<resolving, scrollWait>>
  /\ safeMode' = ~safeMode
  /\ UNCHANGED <<currentActionPlan, isExecutingPlan, runs, loopVars,
                 engineVars>>

\* handleStartAssist up to its await: the two guards, the flag, the call
StartAssistClick ==
  /\ UNCHANGED <<resolving, scrollWait>>
  /\ Len(runs) < MaxRuns
  /\ ~isExecutingPlan
  /\ currentActionPlan # NoPlan
  /\ isExecutingPlan' = TRUE
  /\ runs' = Append(runs, Run("assist", currentActionPlan))
  /\ UNCHANGED <<currentActionPlan, safeMode, loopVars, engineVars>>

\* handleMessage, case 'EXECUTE_ACTION_PLAN': the call, unguarded
ExecuteActionPlanMessage ==
  /\ UNCHANGED <<resolving, scrollWait>>
  /\ Len(runs) < MaxRuns
  /\ \E plan \in AssistPlans : runs' = Append(runs, Run("message", plan))
  /\ UNCHANGED <<currentActionPlan, isExecutingPlan, safeMode, loopVars,
                 engineVars>>

\* the run after a step that settled as s
Stepped(run, s) ==
  IF ~s.rejected /\ s.result.success
  THEN [run EXCEPT !.index = run.index + 1]
  ELSE [run EXCEPT !.failed = TRUE]

\* one executeAction call of run r; a click that goes through stops at the
\* await after its mousedown
RunStep ==
  /\ UNCHANGED <<resolving, scrollWait>>
  /\ \E r \in 1..Len(runs) :
    /\ runs[r].phase = "ready"
    /\ ~runs[r].failed
    /\ runs[r].index < Len(runs[r].plan)
    /\ LET action == runs[r].plan[runs[r].index + 1]
       IN  \E env \in AssistEnvChoices(action, World) :
             \E s \in {executeAction(action, World, env)} :
               IF action.act = "click" /\ s.result.success
               THEN /\ Becomes(clickDown(s.result.element,
                                 Resolution(action, "button", defaultTimeout,
                                            World).w))
                    /\ runs' = [ runs EXCEPT ![r] =
                         [ runs[r] EXCEPT
                             !.phase = "clicking",
                             !.target = s.result.element,
                             !.slow = env.slow,
                             !.clicks = Append(runs[r].clicks,
                               [ confirm |-> action.confirm,
                                 down |-> Len(effects') ,
                                 up |-> 0, click |-> 0 ]) ] ]
               ELSE /\ Becomes(s.w)
                    /\ runs' = [runs EXCEPT ![r] = Stepped(runs[r], s)]
    /\ UNCHANGED <<currentActionPlan, isExecutingPlan, safeMode, loopVars>>

\* the second half of a click: mouseup and click, the result recorded
RunClickUp ==
  /\ UNCHANGED <<resolving, scrollWait>>
  /\ \E r \in 1..Len(runs) :
    /\ runs[r].phase = "clicking"
    /\ Becomes(Record(clickUp(runs[r].target, World, runs[r].slow),
                      runs[r].plan[runs[r].index + 1],
                      clickedResult(runs[r].target)))
    /\ runs' = [ runs EXCEPT ![r] =
         [ runs[r] EXCEPT
             !.phase = "ready",
             !.index = runs[r].index + 1,
             !.clicks[Len(runs[r].clicks)] =
               [ runs[r].clicks[Len(runs[r].clicks)] EXCEPT
                   !.up = Len(effects) + 1, !.click = Len(effects) + 2 ] ] ]
    /\ UNCHANGED <<currentActionPlan, isExecutingPlan, safeMode, loopVars>>

\* the end of executeActionPlan (renderActionPlan of the current plan with
\* the summary) and, for a run Start Assist made, the rest of
\* handleStartAssist
RunReturn ==
  /\ UNCHANGED <<resolving, scrollWait>>
  /\ \E r \in 1..Len(runs) :
    /\ runs[r].phase = "ready"
    /\ runs[r].failed \/ runs[r].index = Len(runs[r].plan)
    /\ runs' = [runs EXCEPT ![r] = [runs[r] EXCEPT !.phase = "returned"]]
    /\ isExecutingPlan' =
         IF runs[r].origin = "assist" \/ RenderResets(currentActionPlan)
         THEN FALSE ELSE isExecutingPlan
    /\ UNCHANGED <<currentActionPlan, safeMode, loopVars, engineVars>>

AssistInit == Init /\ payload = ArrayPayload(<<>>)

AssistNext ==
  \/ ShowAIResponse
  \/ ClearAIResponse
  \/ ToggleSafeMode
  \/ StartAssistClick
  \/ ExecuteActionPlanMessage
  \/ RunStep
  \/ RunClickUp
  \/ RunReturn

AssistSpec == AssistInit /\ [][AssistNext]_vars

\* --------------------------------------- one page, one plan after another
\* The content script keeps its HumanInteractor for as long as the page
\* lives (constructed once, content.ts line 50) and runs every plan that
\* arrives through it.  Between the steps the page's own scripts may
\* disable a field or take it out of pointer events.

\* the plans that arrive on the page
SessionPlans ==
  { <<FindEmail>>, <<ClickFocused>>, <<TypeWords>>, <<ClickSave>>,
    <<FindEmail, TypeWords>> }

\* the fields the page may switch off: the e-mail input and the Save button
SwitchableFields == {2, 7}

\* executeActionPlan has returned or thrown, and the next
\* EXECUTE_ACTION_PLAN message arrives: the locals of the new call are
\* fresh, the HumanInteractor and the page are as the last plan left them
NextPlanArrives ==
  /\ pc \in {"returned", "rejected"}
  /\ Len(runs) < MaxRuns - 1
  /\ runs' = Append(runs, Run("message", payload.items))
  /\ \E plan \in SessionPlans : payload' = ArrayPayload(plan)
  /\ pc' = "idle"
  /\ index' = 0
  /\ stepResults' = <<>>
  /\ completed' = TRUE
  /\ abortReason' = Undefined
  /\ settled' = [rejected |-> FALSE, result |-> NoResult, error |-> Undefined]
  /\ returned' = NotReturned
  /\ calls' = <<>>
  /\ UNCHANGED <<currentPlanSummary, startTime, engineVars, resolving,
                 scrollWait,
                 currentActionPlan, isExecutingPlan, safeMode>>

\* a script of the page disables a field, or gives it pointer-events: none
PageSwitchesFieldOff ==
  /\ pc \in {"idle", "pacing"}
  /\ \A e \in Elements :
       ~HasAttribute(e, "disabled") /\ ~document[e].pointerEventsNone
  /\ \E e \in SwitchableFields :
       \/ document' = [document EXCEPT ![e].attrs.disabled = ""]
       \/ document' = [document EXCEPT ![e].pointerEventsNone = TRUE]
  /\ UNCHANGED <<loopVars, assistVars, scrollWait, resolving, lastFocusedElement,
                 interactionHistory, effects, value, activeElement, scrollY,
                 now>>

SessionInit == Init /\ payload \in {ArrayPayload(p) : p \in SessionPlans}

SessionNext ==
  \/ EnterPlan
  \/ CallExecuteAction
  \/ SettleExecuteAction
  \/ RecordStep
  \/ PacingDelay
  \/ LoopExit
  \/ Finalize
  \/ NextPlanArrives
  \/ PageSwitchesFieldOff

SessionSpec == SessionInit /\ [][SessionNext]_vars

\* ------------------------------------------- the wait for a settled scroll
\* waitForScrollComplete() against the browser's clock.  Time moves in
\* frames and stops at every timer that falls due; a scroll event may
\* arrive in any frame while the listener is registered.
MaxScrollEvents == 3
frameMs == 50

\* resolve(): only the first call settles the promise
ResolveWait(sw) ==
  IF sw.phase = "waiting"
    THEN [sw EXCEPT !.phase = "resolved", !.resolvedAt = sw.clock]
    ELSE sw

\* the timers still pending, by due time
PendingTimers(sw) ==
  (IF sw.scrollTimer # NoTimer THEN {sw.scrollTimer} ELSE {}) \cup
  (IF sw.ceilingPending THEN {scrollCeilingMs} ELSE {})

\* new Promise(resolve => { ... addEventListener('scroll', checkScroll);
\* setTimeout(..., 1000) }): scrollTimer is declared and left unset
BeginScrollWait ==
  /\ scrollWait.phase = "idle"
  /\ scrollWait' =
       [NotWaiting EXCEPT !.phase = "waiting", !.listening = TRUE,
                          !.ceilingPending = TRUE]
  /\ UNCHANGED <<loopVars, engineVars, assistVars, resolving>>

\* checkScroll: clearTimeout(scrollTimer); scrollTimer = setTimeout(resolve,
\* 150)
ScrollEventFires ==
  /\ scrollWait.listening
  /\ scrollWait.events < MaxScrollEvents
  /\ scrollWait' =
       [scrollWait EXCEPT
          !.scrollTimer = scrollWait.clock + scrollQuietMs,
          !.lastScroll = IF scrollWait.phase = "waiting"
                           THEN scrollWait.clock ELSE scrollWait.lastScroll,
          !.events = scrollWait.events + 1]
  /\ UNCHANGED <<loopVars, engineVars, assistVars, resolving>>

\* the clock runs up to the next frame or the next timer, whichever is first
TimePasses ==
  /\ PendingTimers(scrollWait) # {}
  /\ \A due \in PendingTimers(scrollWait) : scrollWait.clock < due
  /\ \E next \in PendingTimers(scrollWait) \cup {scrollWait.clock + frameMs} :
       /\ \A t \in PendingTimers(scrollWait) \cup {scrollWait.clock + frameMs} :
            next <= t
       /\ scrollWait' = [scrollWait EXCEPT !.clock = next]
  /\ UNCHANGED <<loopVars, engineVars, assistVars, resolving>>

\* scrollTimer falls due: resolve
QuietTimerFires ==
  /\ scrollWait.scrollTimer # NoTimer
  /\ scrollWait.clock >= scrollWait.scrollTimer
  /\ scrollWait' = ResolveWait([scrollWait EXCEPT !.scrollTimer = NoTimer])
  /\ UNCHANGED <<loopVars, engineVars, assistVars, resolving>>

\* the 1000 ms timeout: removeEventListener('scroll', checkScroll); resolve()
CeilingFires ==
  /\ scrollWait.ceilingPending
  /\ scrollWait.clock >= scrollCeilingMs
  /\ scrollWait' =
       ResolveWait([scrollWait EXCEPT !.ceilingPending = FALSE,
                                      !.listening = FALSE])
  /\ UNCHANGED <<loopVars, engineVars, assistVars, resolving>>

ScrollWaitInit == Init /\ payload = ArrayPayload(<<>>)

ScrollWaitNext ==
  \/ BeginScrollWait
  \/ ScrollEventFires
  \/ TimePasses
  \/ QuietTimerFires
  \/ CeilingFires

ScrollWaitSpec == ScrollWaitInit /\ [][ScrollWaitNext]_vars

\* ------------------------------------------------- the resolver by itself
\* One call of ElementResolver.findElement or findMultipleElements on a
\* page that has scrolled and gained matching signals before the call, and
\* shows and hides candidates while findElement polls.  findElement is
\* taken pass by pass of its while loop, the page's scripts running at its
\* awaits.

\* <label for="sid">Student ID</label><input id="sid">, the centres of the
\* label and of the input at labelY and inputY
StudentPage(labelY, inputY) ==
  << Node("label", "Student ID", NoElement, labelY,
          [NoAttrs EXCEPT !.for = "sid"]),
     Node("input", "", NoElement, inputY, [NoAttrs EXCEPT !.id = "sid"]),
     Node("body", "", NoElement, inputY, NoAttrs) >>

\* the label 30, 80 and 124 pixels from the input (124: a label of 70 px
\* and an input of 170 px side by side, 4 px apart), and the pair below
\* the fold
StudentPages ==
  { StudentPage(100, 130), StudentPage(100, 180), StudentPage(100, 224),
    StudentPage(900, 930) }

\*  1 <label>, empty, around the link        (far above it)
\*  2 <a> inside the label                    (the candidate)
\*  3 <span>, empty, 60 px below the link
\*  4 <span>, empty, 120 px below the link
\*  5 <body>
SignalPage ==
  << Node("label", "", NoElement, 2000, NoAttrs),
     Node("a", "", 1, 200, NoAttrs),
     Node("span", "", NoElement, 260, NoAttrs),
     Node("span", "", NoElement, 320, NoAttrs),
     Node("body", "", NoElement, 1000, NoAttrs) >>

\* the candidate of SignalPage
Candidate == 2

\*  1 <button aria-label="Archive" style="display:none">
\*  2 <button id="archive-all">, visible
\*  3 <body>
ShadowPage ==
  << [ Node("button", "", NoElement, 100,
            [NoAttrs EXCEPT !.ariaLabel = "Archive"])
       EXCEPT !.displayNone = TRUE ],
     Node("button", "", NoElement, 130, [NoAttrs EXCEPT !.id = "archive-all"]),
     Node("body", "", NoElement, 130, NoAttrs) >>

\*  1 <input type="submit">, with no label, name, id or text near it
\*  2 <body>
BiasPage ==
  << Node("input", "", NoElement, 100, [NoAttrs EXCEPT !.type = "submit"]),
     Node("body", "", NoElement, 100, NoAttrs) >>

Pages == {InitialDocument, SignalPage, ShadowPage, BiasPage} \cup StudentPages

IsSignalPage == Len(document) = Len(SignalPage)

\* the targets the resolver is called with on each page
Targets ==
  IF IsSignalPage THEN {"save"}
  ELSE IF document \in StudentPages THEN {"Student ID", "missing"}
  ELSE IF document = ShadowPage THEN {"archive"}
  ELSE IF document = BiasPage THEN {"send email", "send"}
  ELSE {"Save ", "delete", "card", "missing"}
TypeHints == {"any", "button"}
Timeouts == {0, 450}
ScrollPositions == {0, 600}

\* how often a page shows or hides an element during one run, how many
\* signals it adds to the candidate, and the largest maxResults
MaxPageChanges == 1
MaxSignals == 2
MaxResults == 2

\* the signals a page can add to the candidate for the target "save"
Signals ==
  { "ariaExact", "ariaContains", "name", "placeholder", "id", "class",
    "data", "role", "label", "near60", "near120" }

\* the page after one signal is added
WithSignal(doc, sig) ==
  CASE sig = "ariaExact" -> [doc EXCEPT ![Candidate].attrs.ariaLabel = "Save"]
    [] sig = "ariaContains" ->
         [doc EXCEPT ![Candidate].attrs.ariaLabel = "Save all"]
    [] sig = "name" -> [doc EXCEPT ![Candidate].attrs.name = "save"]
    [] sig = "placeholder" ->
         [doc EXCEPT ![Candidate].attrs.placeholder = "Save as"]
    [] sig = "id" -> [doc EXCEPT ![Candidate].attrs.id = "save"]
    [] sig = "class" -> [doc EXCEPT ![Candidate].attrs.class = "btn save"]
    [] sig = "data" -> [doc EXCEPT ![Candidate].attrs.dataTestid = "save"]
    [] sig = "role" -> [doc EXCEPT ![Candidate].attrs.role = "button"]
    [] sig = "label" -> [doc EXCEPT ![1].text = "Save"]
    [] sig = "near60" -> [doc EXCEPT ![3].text = "Save"]
    [] sig = "near120" -> [doc EXCEPT ![4].text = "Save"]

\* the page gains one signal it does not have yet
AddSignal(sig) ==
  /\ resolving.phase = "idle"
  /\ IsSignalPage
  /\ resolving.signals < MaxSignals
  /\ WithSignal(document, sig) # document
  /\ sig \in {"ariaExact", "ariaContains"}
       => document[Candidate].attrs.ariaLabel = Undefined
  /\ document' = WithSignal(document, sig)
  /\ resolving' = [resolving EXCEPT !.signals = @ + 1]
  /\ UNCHANGED <<loopVars, assistVars, scrollWait, lastFocusedElement,
                 interactionHistory, effects, value, activeElement, scrollY,
                 now>>

\* an aria-label that contains the target becomes the target itself
SharpenAriaLabel ==
  /\ resolving.phase = "idle"
  /\ IsSignalPage
  /\ document[Candidate].attrs.ariaLabel = "Save all"
  /\ document' = [document EXCEPT ![Candidate].attrs.ariaLabel = "Save"]
  /\ UNCHANGED <<loopVars, assistVars, scrollWait, resolving, lastFocusedElement,
                 interactionHistory, effects, value, activeElement, scrollY,
                 now>>

\* the user scrolls the page
PageScrolls ==
  /\ resolving.phase = "idle"
  /\ \E y \in ScrollPositions \ {scrollY} : scrollY' = y
  /\ UNCHANGED <<loopVars, assistVars, scrollWait, resolving, lastFocusedElement,
                 interactionHistory, effects, value, activeElement, now,
                 document>>

\* a script of the page shows or hides a candidate while findElement polls
PageShowsOrHides ==
  /\ resolving.phase = "polling"
  /\ resolving.changes < MaxPageChanges
  /\ \E e \in getRelevantElements(resolving.type) :
       /\ SignalScore(e, resolving.target) > 0
       /\ document' = [document EXCEPT ![e].displayNone = ~@]
  /\ resolving' = [resolving EXCEPT !.changes = @ + 1]
  /\ UNCHANGED <<loopVars, assistVars, scrollWait, lastFocusedElement,
                 interactionHistory, effects, value, activeElement, scrollY,
                 now>>

\* findElement is called: the target is normalised, startTime is read
CallFindElement ==
  /\ resolving.phase = "idle"
  /\ \E target \in Targets, type \in TypeHints, timeout \in Timeouts,
        requireVisible \in BOOLEAN :
       resolving' = [resolving EXCEPT
                       !.phase = "polling", !.target = NormalizeTarget(target),
                       !.type = type, !.timeout = timeout,
                       !.requireVisible = requireVisible, !.startTime = now,
                       !.match = NullMatch, !.matches = <<>>]
  /\ UNCHANGED <<loopVars, assistVars, scrollWait, engineVars>>

\* one pass of findElement's while loop: the loop test, and then the pass
\* PollOnce describes, which returns the best match or goes round again
PollStep ==
  /\ resolving.phase = "polling"
  /\ IF ~(now - resolving.startTime < resolving.timeout)
     THEN /\ resolving' = [resolving EXCEPT !.phase = "returned"]
          /\ UNCHANGED <<scrollY, now>>
     ELSE \E p \in {PollOnce(resolving.target, resolving.type,
                             resolving.requireVisible, scrollY)} :
            /\ scrollY' = p.scrollY
            /\ now' = now + p.elapsed
            /\ resolving' =
                 IF p.element = NoElement THEN resolving
                 ELSE [resolving EXCEPT
                         !.phase = "returned",
                         !.match = ElementMatch(p.element, p.score)]
  /\ UNCHANGED <<loopVars, assistVars, scrollWait, lastFocusedElement,
                 interactionHistory, effects, value, activeElement, document>>

\* findMultipleElements is called and returns its list
CallFindMultiple ==
  /\ resolving.phase = "idle"
  /\ \E target \in Targets, type \in TypeHints, maxResults \in 0..MaxResults :
       resolving' = [resolving EXCEPT
                       !.phase = "listed", !.target = NormalizeTarget(target),
                       !.type = type, !.maxResults = maxResults,
                       !.match = NullMatch,
                       !.matches = findMultipleElements(target, maxResults,
                                                        type, scrollY)]
  /\ UNCHANGED <<loopVars, assistVars, scrollWait, engineVars>>

ResolverInit ==
  /\ payload = NullPayload
  /\ pc = "idle"
  /\ index = 0
  /\ stepResults = <<>>
  /\ completed = TRUE
  /\ abortReason = Undefined
  /\ settled = [rejected |-> FALSE, result |-> NoResult, error |-> Undefined]
  /\ returned = NotReturned
  /\ currentPlanSummary = NoSummary
  /\ startTime = 0
  /\ calls = <<>>
  /\ lastFocusedElement = NoElement
  /\ interactionHistory = <<>>
  /\ effects = <<>>
  /\ value = InitialValue
  /\ scrollY = 0
  /\ now = 0
  /\ document \in Pages
  /\ activeElement = Len(document)
  /\ currentActionPlan = NoPlan
  /\ isExecutingPlan = FALSE
  /\ safeMode = FALSE
  /\ runs = <<>>
  /\ resolving = NotResolving
  /\ scrollWait = NotWaiting

ResolverNext ==
  \/ CallFindElement
  \/ PollStep
  \/ CallFindMultiple
  \/ PageScrolls
  \/ PageShowsOrHides
  \/ \E sig \in Signals : AddSignal(sig)
  \/ SharpenAriaLabel

ResolverSpec == ResolverInit /\ [][ResolverNext]_vars

\* the next pass of a polling findElement is always taken in the end: its
\* awaits are timers, which fire
ResolverLiveSpec == ResolverSpec /\ WF_vars(PollStep)

\* ------------------------------------------------------------ properties

\* C1: when a plan of length N has been run and step k (1-indexed) is the
\* first whose executeAction call failed or threw, the returned summary has
\* N steps, steps[i].action is plan[i], steps 1..k-1 are 'success', step k
\* is 'failed' and steps k+1..N are 'skipped'.
C1_StepsByPosition ==
  ( /\ pc = "returned"
    /\ payload.kind = "array"
    /\ calls # <<>>
    /\ (settled.rejected \/ ~settled.result.success) )
  => LET N == Len(payload.items)
         k == Len(calls)
         steps == returned.summary.steps
     IN  /\ \A i \in 1..(k - 1) : interactionHistory[i].result.success
         /\ Len(steps) = N
         /\ \A i \in 1..N :
              /\ steps[i].action = payload.items[i]
              /\ steps[i].status = IF i < k THEN "success"
                                   ELSE IF i = k THEN "failed" ELSE "skipped"

\* a plan of three steps returned with its second step failed
C1_Witness ==
  /\ pc = "returned"
  /\ Len(payload.items) = 3
  /\ Len(calls) = 2
  /\ ~settled.result.success
  /\ [i \in 1..3 |-> returned.summary.steps[i].status]
       = <<"success", "failed", "skipped">>

\* C2: every element a type action can end up with (resolved from its target
\* with the type hint 'input', or lastFocusedElement) that has type=password
\* or an autocomplete attribute containing cc-name, cc-number, cc-exp, cc-csc
\* or cc-type makes a type action with text return success=false with the
\* message 'Cannot type into password or payment fields for security
\* reasons'.
C2_SensitiveTargetRefused ==
  [][ ( /\ pc = "awaiting"
        /\ pc' = "resumed"
        /\ PlanAt(index).kind = "object"
        /\ PlanAt(index).act = "type"
        /\ ~Falsy(PlanAt(index).text)
        /\ settled'.result.error # domErrorMessage
        /\ LET e == Resolution(PlanAt(index), "input", defaultTimeout,
                               World).element
           IN  /\ e # NoElement
               /\ \/ document[e].attrs.type = "password"
                  \/ \E token \in {"cc-name", "cc-number", "cc-exp",
                                   "cc-csc", "cc-type"} :
                       /\ HasAttribute(e, "autocomplete")
                       /\ Includes(ToLowerCase(document[e].attrs.autocomplete),
                                   token) )
      => ( /\ ~settled'.rejected
           /\ ~settled'.result.success
           /\ settled'.result.message
                = "Cannot type into password or payment fields for security reasons" )
    ]_vars

\* C3: when a type action is refused because its target is a sensitive
\* field, no keydown, keypress, input, keyup or change event was dispatched,
\* focus() was not called, and every element's value is what it was before
\* the action.
C3_RefusalLeavesFieldUntouched ==
  [][ ( /\ pc = "awaiting"
        /\ pc' = "resumed"
        /\ PlanAt(index).act = "type"
        /\ settled'.result.message = sensitiveMessage )
      => ( /\ value' = value
           /\ activeElement' = activeElement
           /\ \A i \in (Len(effects) + 1)..Len(effects') :
                effects'[i].type \notin
                  {"keydown", "keypress", "input", "keyup", "change", "focus"} )
    ]_vars

\* a type action aimed at the password field has just been refused
C3_Witness ==
  /\ pc = "resumed"
  /\ PlanAt(index) = TypePassword
  /\ settled.result.message = sensitiveMessage
  /\ value[3] = "old"

\* C4: the executeAction calls of one plan run are plan[1], plan[2], ... in
\* plan order, each once; a call starts only when every earlier call has
\* produced its result (and that result was a success); after the first
\* failure no further call is made, so the run makes m calls, m being the
\* first failing step, or N when no step fails.
C4_CallsInOrderOnce ==
  /\ \A i \in 1..Len(calls) : calls[i] = i - 1
  /\ pc = "awaiting"
       => /\ completed
          /\ Len(stepResults) = Len(calls) - 1
          /\ \A i \in 1..Len(stepResults) : stepResults[i].status = "success"
  /\ (pc = "returned" /\ payload.kind = "array")
       => IF returned.summary.completed
          THEN Len(calls) = Len(payload.items)
          ELSE /\ returned.summary.steps[Len(calls)].status = "failed"
               /\ \A i \in 1..(Len(calls) - 1) :
                    returned.summary.steps[i].status = "success"

\* a plan of three steps that stopped after two calls
C4_Witness ==
  /\ pc = "returned"
  /\ Len(payload.items) = 3
  /\ calls = <<0, 1>>
  /\ ~returned.summary.completed

\* C5: in every returned summary, completed is true exactly when every step
\* has status 'success', and abortReason is set exactly when completed is
\* false.
C5_CompletedIffAllSuccess ==
  pc = "returned"
  => /\ returned.summary.completed
          <=> \A i \in 1..Len(returned.summary.steps) :
                returned.summary.steps[i].status = "success"
     /\ (returned.summary.abortReason # Undefined)
          <=> ~returned.summary.completed

\* a returned summary of a plan that failed, with its abort reason
C5_Witness ==
  /\ pc = "returned"
  /\ ~returned.summary.completed
  /\ returned.summary.abortReason # Undefined
  /\ \E i \in 1..Len(returned.summary.steps) :
       returned.summary.steps[i].status = "failed"

\* C6: executeActionPlan never throws or rejects, whatever payload it is
\* given: it returns a summary.
C6_PlanLoopNeverRejects == pc # "rejected"

\* C7: executeAction never throws or rejects, whatever action value it is
\* given (null and non-objects included): it returns an ActionResult, with
\* success=false when the entry is malformed.
C7_ExecuteActionNeverRejects ==
  pc = "resumed"
  => /\ ~settled.rejected
     /\ PlanAt(index).kind # "object" => ~settled.result.success

\* C8: for an action whose act is none of find, scroll, focus, type, click,
\* tab, wait, executeAction returns success=false with the message
\* 'Unknown action: <act>', and neither calls the resolver nor dispatches an
\* event.
C8_UnknownActReported ==
  [][ ( /\ pc = "awaiting"
        /\ pc' = "resumed"
        /\ PlanAt(index).kind # "null"
        /\ PlanAt(index).act \notin
             {"find", "scroll", "focus", "type", "click", "tab", "wait"} )
      => ( /\ ~settled'.rejected
           /\ ~settled'.result.success
           /\ settled'.result.message
                = "Unknown action: "
                    \o (IF PlanAt(index).act = Undefined THEN "undefined"
                        ELSE PlanAt(index).act)
           /\ effects' = effects
           /\ value' = value )
    ]_vars

\* executeAction has just returned for {act: 'hover'}
C8_Witness ==
  /\ pc = "resumed"
  /\ PlanAt(index) = Hover
  /\ settled.result.message = "Unknown action: hover"

\* C9: the summary's abortReason names the class of the failure that
\* stopped the plan: permission_denied for a sensitive-field or confirmation
\* refusal, resolver_confidence_low when the resolver found no match, and
\* unknown_error only for an uncaught exception.
C9_AbortReasonNamesFailureClass ==
  (pc = "returned" /\ ~returned.summary.completed)
  => /\ ( /\ ~settled.rejected
          /\ settled.result.error
               \in {"Sensitive field restriction", "Confirmation required"} )
          => returned.summary.abortReason = AbortPermissionDenied
     /\ ( /\ ~settled.rejected
          /\ Len(settled.result.message) >= 14
          /\ SubSeq(settled.result.message, 1, 14) = "Could not find" )
          => returned.summary.abortReason = AbortResolverConfidenceLow
     /\ returned.summary.abortReason = AbortUnknown
          => \/ settled.rejected
             \/ settled.result.error = domErrorMessage

\* C10: the failed step's message is the failing ActionResult's message; the
\* plan whose only step types into the password field ends with one failed
\* step whose message contains 'security reasons'.
C10_FailedStepCarriesMessage ==
  ( /\ pc = "returned"
    /\ ~returned.summary.completed
    /\ ~settled.rejected )
  => /\ returned.summary.steps[Len(calls)].message = settled.result.message
     /\ ( /\ payload.items = <<TypePassword>>
          /\ settled.result.error # domErrorMessage )
          => /\ Len(returned.summary.steps) = 1
             /\ returned.summary.steps[1].status = "failed"
             /\ Includes(returned.summary.steps[1].message, "security reasons")

\* C11: when the resolver's best match for an action's target scores below
\* the medium threshold (confidence 'low'), the action ends as a failure and
\* no focus() call and no keyboard, input or mouse event reaches the page.
C11_LowConfidenceNotActedOn ==
  [][ ( /\ pc = "awaiting"
        /\ pc' = "resumed"
        /\ PlanAt(index).kind = "object"
        /\ PlanAt(index).act \in {"find", "scroll", "focus", "type", "click"}
        /\ ~Falsy(PlanAt(index).target)
        /\ (PlanAt(index).act = "type" => ~Falsy(PlanAt(index).text))
        /\ LET r == Resolution(PlanAt(index),
                               CASE PlanAt(index).act = "type" -> "input"
                                 [] PlanAt(index).act = "click" -> "button"
                                 [] OTHER -> "any",
                               defaultTimeout, World)
           IN  /\ ~r.missed
               /\ scoreElement(r.element, NormalizeTarget(PlanAt(index).target),
                               r.w.scrollY) < thresholdMedium )
      => ( /\ ~settled'.rejected
           /\ ~settled'.result.success
           /\ \A i \in (Len(effects) + 1)..Len(effects') :
                effects'[i].type \notin
                  {"focus", "keydown", "keypress", "keyup", "input", "change",
                   "mousedown", "mouseup", "click"} )
    ]_vars

\* C12: the engine never calls a form's submit (or requestSubmit): all it
\* does to the page is scrollIntoView, focus(), assignments to the value of
\* the element it types into, and the dispatch of keydown, keypress, keyup,
\* input, change, mousedown, mouseup and click events.
C12_NoSubmitCall ==
  /\ \A i \in 1..Len(effects) :
       effects[i].type \in
         {"resolver.findElement", "scrollIntoView", "focus", "keydown",
          "keypress", "keyup", "input", "change", "mousedown", "mouseup",
          "click"}
  /\ \A e \in DOMAIN value :
       value[e] # InitialValue[e]
         => \E i \in 1..Len(effects) :
              effects[i].type = "input" /\ effects[i].el = e

\* a plan that typed into the e-mail field and clicked the save button
C12_Witness ==
  /\ pc = "returned"
  /\ returned.summary.completed
  /\ value[2] = "hi yo"
  /\ \E i \in 1..Len(effects) : effects[i] = Effect("click", 7, "")
  /\ \E i \in 1..Len(effects) : effects[i] = Effect("change", 2, "")

C16_SafeModeStopsAutomation ==
  [][ safeMode
        => /\ interactionHistory' = interactionHistory
           /\ effects' = effects
           /\ \A r \in 1..Len(runs) :
                r <= Len(runs') /\ runs'[r].index = runs[r].index
    ]_vars

\* C17: at most one plan run is in flight at any time: while a run has not
\* returned, neither Start Assist, nor an EXECUTE_ACTION_PLAN message, nor
\* a reset of the plan panel lets a second one start.
C17_OnePlanRunInFlight ==
  Cardinality({r \in 1..Len(runs) : runs[r].phase # "returned"}) <= 1

\* C14: the engine never blocks a click for lack of confirmation: in every
\* engine state a click action with confirm=true gives the same result,
\* the same dispatched events and the same engine state as the same action
\* with confirm false, and no result carries 'Confirmation required'.
C14_ConfirmNeverBlocks ==
  /\ ( /\ pc = "awaiting"
       /\ PlanAt(index).kind = "object"
       /\ PlanAt(index).act = "click" )
       => \A env \in EnvChoices(PlanAt(index), World) :
            LET confirmed == [PlanAt(index) EXCEPT !.confirm = TRUE]
                plain == [PlanAt(index) EXCEPT !.confirm = FALSE]
                x == executeAction(confirmed, World, env)
                y == executeAction(plain, World, env)
            IN  /\ x.rejected = y.rejected
                /\ x.result = y.result
                /\ x.w.effects = y.w.effects
                /\ x.w.lastFocusedElement = y.w.lastFocusedElement
                /\ x.w.now = y.w.now
                /\ x.result.error # "Confirmation required"
  /\ \A i \in 1..Len(interactionHistory) :
       interactionHistory[i].result.error # "Confirmation required"

\* a click with confirm=true has settled with success, its click event the
\* last one dispatched
C14_Witness ==
  /\ pc = "resumed"
  /\ PlanAt(index) = ClickSave
  /\ ClickSave.confirm
  /\ settled.result.success
  /\ effects # <<>>
  /\ effects[Len(effects)] = Effect("click", 7, "")

\* C18: every executeAction call appends exactly one entry (the action and
\* the result returned) to the interaction history, in call order: the
\* history is as long as the number of calls that have completed.
C18_OneHistoryEntryPerCall ==
  /\ Len(interactionHistory)
       = Len(calls) - (IF pc = "awaiting" THEN 1 ELSE 0)
  /\ \A i \in 1..Len(interactionHistory) :
       interactionHistory[i].action = PlanAt(calls[i])

\* C19: lastFocusedElement changes only to the matched element on a
\* successful find, to the target on a successful focus, and to the new
\* document.activeElement after a tab that changed the active element;
\* scroll, type, click, wait and every failed action leave it unchanged.
C19_LastFocusedChangesOnlyOnFindFocusTab ==
  [][ lastFocusedElement' # lastFocusedElement
        => /\ pc = "awaiting"
           /\ pc' = "resumed"
           /\ PlanAt(index).kind = "object"
           /\ ~settled'.rejected
           /\ settled'.result.success
           /\ \/ /\ PlanAt(index).act \in {"find", "focus"}
                 /\ lastFocusedElement' = settled'.result.element
                 /\ lastFocusedElement' # NoElement
              \/ /\ PlanAt(index).act = "tab"
                 /\ activeElement' # activeElement
                 /\ lastFocusedElement' = activeElement'
    ]_vars

\* a successful focus on a target has just replaced the remembered element
\* of an earlier find
C19_Witness ==
  /\ pc = "resumed"
  /\ PlanAt(index) = FocusSave
  /\ settled.result.success
  /\ lastFocusedElement = 7
  /\ Len(interactionHistory) = 2
  /\ interactionHistory[1].result.element = 2

\* C20: an action that lacks a required operand (find without target, type
\* without text, or scroll, focus, type, click with neither a target nor a
\* remembered lastFocusedElement) returns success=false and dispatches no
\* event, calls neither focus nor scrollIntoView, and leaves
\* lastFocusedElement unchanged.
C20_MissingOperandFailsWithoutEffect ==
  [][ ( /\ pc = "awaiting"
        /\ pc' = "resumed"
        /\ PlanAt(index).kind = "object"
        /\ \/ PlanAt(index).act = "find" /\ Falsy(PlanAt(index).target)
           \/ PlanAt(index).act = "type" /\ Falsy(PlanAt(index).text)
           \/ /\ PlanAt(index).act \in {"scroll", "focus", "type", "click"}
              /\ Falsy(PlanAt(index).target)
              /\ lastFocusedElement = NoElement )
      => ( /\ ~settled'.rejected
           /\ ~settled'.result.success
           /\ effects' = effects
           /\ value' = value
           /\ activeElement' = activeElement
           /\ scrollY' = scrollY
           /\ lastFocusedElement' = lastFocusedElement )
    ]_vars

\* a type without text, aimed at the e-mail field an earlier find
\* remembered, has failed and left the field and the log as they were
C20_Witness ==
  /\ pc = "resumed"
  /\ PlanAt(index) = TypeNothing
  /\ lastFocusedElement = 2
  /\ ~settled.result.success
  /\ settled.result.message = "No text specified for type action"
  /\ value[2] = "old"
  /\ \A i \in 1..Len(effects) : effects[i].type = "resolver.findElement"

\* C22: a wait action delays for exactly its waitMs milliseconds (1000 ms
\* when waitMs is unspecified) and then returns success=true.
C22_WaitDelaysForWaitMs ==
  [][ ( /\ pc = "awaiting"
        /\ pc' = "resumed"
        /\ PlanAt(index).kind = "object"
        /\ PlanAt(index).act = "wait" )
      => ( /\ ~settled'.rejected
           /\ settled'.result.success
           /\ now' - now = IF PlanAt(index).waitMs # 0
                           THEN PlanAt(index).waitMs ELSE defaultWaitMs )
    ]_vars

\* C23: the 100 ms pacing delay is taken only between a successful step and
\* a next step: never after the last step of the plan, never after a
\* failed step.
C23_PacingOnlyBetweenSteps ==
  [][ (pc = "pacing" /\ now' = now + pacingMs)
        => /\ ~settled.rejected
           /\ settled.result.success
           /\ index + 1 < PlanLength
    ]_vars

\* C30: for a type action whose text is longer than 32 characters the
\* rendering of describeAutomationAction shows a preview of at most 32
\* characters that ends in the ellipsis character and does not contain the
\* full text.
C30_LongTextPreviewTruncated ==
  \A i \in 0..(PlanLength - 1) :
    ( /\ PlanAt(i).kind = "object"
      /\ PlanAt(i).act = "type"
      /\ ~Falsy(PlanAt(i).text)
      /\ Len(PlanAt(i).text) > previewLength )
    => \E s \in {describeAutomationAction(PlanAt(i))} :
       \E last \in {IF Falsy(PlanAt(i).target) THEN Len(s) - 1
                    ELSE Len(s) - Len(PlanAt(i).target) - 7} :
         /\ SubSeq(s, 1, 6) = "Type " \o Ldquo
         /\ SubSeq(s, last, last) = Ellipsis
         /\ SubSeq(s, last + 1, last + 1) = Rdquo
         /\ last - 6 <= previewLength
         /\ ~Includes(SubSeq(s, 7, last), PlanAt(i).text)
         /\ Includes(PlanAt(i).text, SubSeq(s, 7, last - 1))

\* the plan with the 33-character text has returned and its summary is
\* rendered: the step reads Type, 31 characters of the text, the ellipsis
C30_Witness ==
  /\ pc = "returned"
  /\ payload = ArrayPayload(<<TypeLong>>)
  /\ Len(TypeLong.text) = previewLength + 1
  /\ describeAutomationAction(PlanAt(0))
       = "Type " \o Ldquo \o "the quick brown fox jumps over " \o Ellipsis
         \o Rdquo

\* C21: a node removed from the document between two actions is no longer
\* used through lastFocusedElement: a following scroll, focus, type or
\* click without target dispatches no event on it, does not focus it and
\* does not write its value; the action fails.
C21_DetachedElementNotUsed ==
  [][ ( /\ pc = "awaiting"
        /\ pc' = "resumed"
        /\ PlanAt(index).kind = "object"
        /\ PlanAt(index).act \in {"scroll", "focus", "type", "click"}
        /\ Falsy(PlanAt(index).target)
        /\ lastFocusedElement # NoElement
        /\ ~Attached(lastFocusedElement) )
      => ( /\ ~settled'.rejected
           /\ ~settled'.result.success
           /\ \A i \in (Len(effects) + 1)..Len(effects') :
                effects'[i].el # lastFocusedElement
           /\ value'[lastFocusedElement] = value[lastFocusedElement] )
    ]_vars

\* C24: every non-null result of findElement has a score of at least low
\* (1.0) and, when requireVisible is true, passed the visibility test in
\* the pass that returned it; otherwise the result is null.
C24_ResultQualifies ==
  resolving.phase = "returned"
    => IF resolving.match.element = NoElement
       THEN resolving.match = NullMatch
       ELSE /\ resolving.match.score >= thresholdLow
            /\ resolving.match.element \in getRelevantElements(resolving.type)
            /\ resolving.requireVisible
                 => isElementVisible(resolving.match.element, scrollY)

\* the Save button below the fold was returned after findElement scrolled
\* it into view
C24_Witness ==
  /\ resolving.phase = "returned"
  /\ resolving.requireVisible
  /\ resolving.target = "save"
  /\ resolving.match.element = 7
  /\ ~isElementVisible(7, 0)
  /\ scrollY = 1300

\* C25: findElement always returns, whatever the page does meanwhile, and
\* within its timeout plus the wait of one pass of its loop (the 300 ms
\* settle wait and the 100 ms polling wait).
C25_FindElementReturnsInTime ==
  /\ [](resolving.phase \in {"polling", "returned"}
          => now - resolving.startTime
               < resolving.timeout + scrollSettleMs + pollIntervalMs)
  /\ (resolving.phase = "polling") ~> (resolving.phase = "returned")

\* findElement gave up on the hidden Delete button after its timeout, the
\* last pass having begun before it
C25_Witness ==
  /\ resolving.phase = "returned"
  /\ resolving.target = "delete"
  /\ resolving.requireVisible
  /\ resolving.match = NullMatch
  /\ resolving.timeout = 450
  /\ now - resolving.startTime = 600

\* C26: findMultipleElements returns at most maxResults matches, each with
\* a score of at least low (1.0), in non-increasing score order, and no
\* candidate left out scores higher than a returned one.
C26_MultipleMatchesRanked ==
  resolving.phase = "listed"
    => \E scores \in {ScoresOf(resolving.target, resolving.type, scrollY)} :
         /\ Len(resolving.matches) <= resolving.maxResults
         /\ \A i \in 1..Len(resolving.matches) :
              /\ resolving.matches[i].element
                   \in getRelevantElements(resolving.type)
              /\ resolving.matches[i].score
                   = scores[resolving.matches[i].element]
              /\ resolving.matches[i].score >= thresholdLow
              /\ \A j \in 1..Len(resolving.matches) :
                   /\ i < j => resolving.matches[i].score
                                 >= resolving.matches[j].score
                   /\ i # j => resolving.matches[i].element
                                 # resolving.matches[j].element
              /\ \A e \in getRelevantElements(resolving.type) :
                   (\A j \in 1..Len(resolving.matches) :
                      resolving.matches[j].element # e)
                     => scores[e] <= resolving.matches[i].score

\* two of the three fields that match "card" were returned, the third, as
\* low as 1.0, was cut off by maxResults
C26_Witness ==
  /\ resolving.phase = "listed"
  /\ resolving.target = "card"
  /\ resolving.maxResults = 2
  /\ Len(resolving.matches) = 2
  /\ resolving.matches[1].element = 4
  /\ resolving.matches[2].element = 5
  /\ scoreElement(6, "card", scrollY) = thresholdLow

\* C27 (as claimed): getConfidence is 'high' iff score >= 4.0, 'medium' iff
\* 2.5 <= score < 4.0 and 'low' iff 1.0 <= score < 2.5, for every score
\* the resolver assigns a tier to.
C27_TiersAsClaimed ==
  resolving.phase \in {"polling", "returned", "listed"}
    => \E all \in {scoreAllElements(resolving.target, resolving.type,
                                    scrollY)} :
         \A i \in 1..Len(all) :
           /\ all[i].confidence = "high" <=> all[i].score >= thresholdHigh
           /\ all[i].confidence = "medium"
                <=> (thresholdMedium <= all[i].score
                     /\ all[i].score < thresholdHigh)
           /\ all[i].confidence = "low"
                <=> (thresholdLow <= all[i].score
                     /\ all[i].score < thresholdMedium)

\* C27 (amended): getConfidence is 'high' iff score >= 4.0, 'medium' iff
\* 2.5 <= score < 4.0 and 'low' for every score below 2.5, those below 1.0
\* included; the matches findElement and findMultipleElements return carry
\* the tier of their score and never score below 1.0.
C27_TiersAndReturnedScores ==
  /\ resolving.phase \in {"polling", "returned", "listed"}
       => \E all \in {scoreAllElements(resolving.target, resolving.type,
                                       scrollY)} :
            \A i \in 1..Len(all) :
              /\ all[i].score > 0
              /\ all[i].confidence = "high" <=> all[i].score >= thresholdHigh
              /\ all[i].confidence = "medium"
                   <=> (thresholdMedium <= all[i].score
                        /\ all[i].score < thresholdHigh)
              /\ all[i].confidence = "low" <=> all[i].score < thresholdMedium
  /\ \A m \in ({resolving.matches[i] : i \in 1..Len(resolving.matches)}
                \cup {resolving.match}) \ {NullMatch} :
       /\ m.score >= thresholdLow
       /\ m.confidence = "high" <=> m.score >= thresholdHigh
       /\ m.confidence = "medium"
            <=> (thresholdMedium <= m.score /\ m.score < thresholdHigh)
       /\ m.confidence = "low" <=> m.score < thresholdMedium

\* the candidate scores 0.3, from a text 60 px away alone: scoreAllElements
\* gives it the tier 'low', findMultipleElements leaves it out
C27_Witness ==
  /\ resolving.phase = "listed"
  /\ IsSignalPage
  /\ resolving.type = "any"
  /\ resolving.maxResults > 0
  /\ resolving.matches = <<>>
  /\ scoreAllElements("save", "any", scrollY)
       = <<[element |-> Candidate, score |-> 300, confidence |-> "low"]>>

C29_StudentIdHighConfidence ==
  ( /\ resolving.phase = "returned"
    /\ document \in StudentPages
    /\ resolving.target = "student id"
    /\ resolving.type = "any"
    /\ resolving.timeout > 0 )
  => /\ resolving.match.element = 2
     /\ resolving.match.confidence = "high"

\* C32: whenever a type action returns success=true, the content of the
\* element it typed into equals action.text exactly, in per-character and
\* in word-by-word mode, for every element the resolver returns for the
\* type hint 'input' (a contenteditable element included).
C32_TypedContentEqualsText ==
  [][ ( /\ pc = "awaiting"
        /\ pc' = "resumed"
        /\ PlanAt(index).kind = "object"
        /\ PlanAt(index).act = "type"
        /\ ~Falsy(PlanAt(index).target)
        /\ ~settled'.rejected
        /\ settled'.result.success )
      => value'[settled'.result.element] = PlanAt(index).text
    ]_vars

\* C33: the events a successful type action dispatches are, in
\* per-character mode, keydown, keypress, input, keyup for each character
\* of the text in order, and in word mode one input event for each word
\* text.split(' ') yields; in both modes they end with exactly one change
\* event, which is the last thing the action does to the page; all of them
\* are dispatched on the element typed into.
C33_TypeEventTrace ==
  [][ ( /\ pc = "awaiting"
        /\ pc' = "resumed"
        /\ PlanAt(index).kind = "object"
        /\ PlanAt(index).act = "type"
        /\ ~settled'.rejected
        /\ settled'.result.success )
      => \E new \in {SubSeq(effects', Len(effects) + 1, Len(effects'))} :
         \E ev \in {SelectSeq(new, LAMBDA x :
                      x.type \in {"keydown", "keypress", "input", "keyup",
                                  "change", "mousedown", "mouseup",
                                  "click"})} :
         \E e \in {settled'.result.element} :
         \E text \in {PlanAt(index).text} :
           /\ new[Len(new)] = Effect("change", e, "")
           /\ ev[Len(ev)] = Effect("change", e, "")
           /\ \A i \in 1..(Len(ev) - 1) : ev[i].type # "change"
           /\ IF PlanAt(index).perChar
              THEN /\ Len(ev) = 4 * Len(text) + 1
                   /\ \A i \in 1..Len(text) :
                        /\ ev[4 * i - 3]
                             = Effect("keydown", e, SubSeq(text, i, i))
                        /\ ev[4 * i - 2]
                             = Effect("keypress", e, SubSeq(text, i, i))
                        /\ ev[4 * i - 1] = Effect("input", e, "")
                        /\ ev[4 * i] = Effect("keyup", e, SubSeq(text, i, i))
              ELSE /\ Len(ev) = Len(SplitSpaces(text)) + 1
                   /\ \A i \in 1..Len(SplitSpaces(text)) :
                        ev[i] = Effect("input", e, "")
    ]_vars

\* "41" has just been typed character by character: two rounds of four
\* events and the change event
C33_Witness ==
  /\ pc = "resumed"
  /\ PlanAt(index) = TypeCardNote
  /\ settled.result.success
  /\ Len(effects) >= 9
  /\ effects[Len(effects)] = Effect("change", 5, "")
  /\ effects[Len(effects) - 1] = Effect("keyup", 5, "1")
  /\ effects[Len(effects) - 8] = Effect("keydown", 5, "4")

\* C34 (as claimed): a focus action whose target was resolved returns
\* success=true if and only if document.activeElement equals the target
\* when the action returns; a failed focus action leaves
\* lastFocusedElement as it was.
C34_FocusSuccessIffActive ==
  [][ ( /\ pc = "awaiting"
        /\ pc' = "resumed"
        /\ PlanAt(index).kind = "object"
        /\ PlanAt(index).act = "focus"
        /\ ~settled'.rejected )
      => \E r \in {Resolution(PlanAt(index), "any", defaultTimeout, World)} :
           /\ ( /\ settled'.result.error # domErrorMessage
                /\ ~r.missed
                /\ r.element # NoElement )
                => ( settled'.result.success <=> activeElement' = r.element )
           /\ ~settled'.result.success
                => lastFocusedElement' = lastFocusedElement
    ]_vars

\* C34 (amended): a focus action whose target was resolved returns
\* success=true if and only if the target passes canReceiveFocus and
\* document.activeElement equals the target when the action returns; a
\* target that fails canReceiveFocus is refused before focus() is called,
\* even when it is the active element (document.body).  A failed focus
\* action leaves lastFocusedElement as it was.
C34_FocusSuccessIffFocusableAndActive ==
  [][ ( /\ pc = "awaiting"
        /\ pc' = "resumed"
        /\ PlanAt(index).kind = "object"
        /\ PlanAt(index).act = "focus"
        /\ ~settled'.rejected )
      => \E r \in {Resolution(PlanAt(index), "any", defaultTimeout, World)} :
           /\ ( /\ settled'.result.error # domErrorMessage
                /\ ~r.missed
                /\ r.element # NoElement )
                => /\ settled'.result.success
                        <=> ( /\ canReceiveFocus(r.element)
                              /\ activeElement' = r.element )
                   /\ ~canReceiveFocus(r.element) => effects' = effects
           /\ ~settled'.result.success
                => lastFocusedElement' = lastFocusedElement
    ]_vars

\* the page answered the Tab key by moving the focus to the body, which
\* the engine then remembered; the focus action on it was refused although
\* the body is the active element
C34_Witness ==
  /\ pc = "resumed"
  /\ payload.items = <<FocusSave, Tab, Focus>>
  /\ index = 2
  /\ lastFocusedElement = Body
  /\ activeElement = Body
  /\ ~settled.result.success
  /\ settled.result.message = "Element cannot receive focus"

\* C35: a successful find remembers the element it matched, and a scroll,
\* focus, type or click action that omits target operates on the
\* remembered element (a click on it or on its associated label) and on no
\* other element: every event it dispatches and every DOM call it makes
\* has that element as its receiver, and only that element's value
\* changes.
C35_TargetlessActionUsesRemembered ==
  [][ /\ ( /\ pc = "awaiting"
           /\ pc' = "resumed"
           /\ PlanAt(index).kind = "object"
           /\ PlanAt(index).act = "find"
           /\ ~settled'.rejected
           /\ settled'.result.success )
         => /\ settled'.result.element # NoElement
            /\ lastFocusedElement' = settled'.result.element
      /\ ( /\ pc = "awaiting"
           /\ pc' = "resumed"
           /\ PlanAt(index).kind = "object"
           /\ PlanAt(index).act \in {"scroll", "focus", "type", "click"}
           /\ Falsy(PlanAt(index).target)
           /\ lastFocusedElement # NoElement )
         => \E on \in { IF PlanAt(index).act = "click"
                        THEN {lastFocusedElement,
                              getOptimalClickTarget(lastFocusedElement)}
                        ELSE {lastFocusedElement} } :
              /\ \A i \in (Len(effects) + 1)..Len(effects') :
                   effects'[i].el \in on
              /\ \A e \in Elements :
                   value'[e] # value[e] => e = lastFocusedElement
              /\ settled'.result.success => settled'.result.element \in on
    ]_vars

\* the e-mail field was found, and the click that names no target has
\* landed on its label
C35_Witness ==
  /\ pc = "resumed"
  /\ index = 1
  /\ payload.items = <<FindEmail, ClickFocused>>
  /\ lastFocusedElement = 2
  /\ settled.result.success
  /\ settled.result.element = 1
  /\ effects[Len(effects)] = Effect("click", 1, "")

\* C37: findElement calls scrollIntoView only on a best match whose score
\* is at least the low threshold (1.0): a candidate that scores below it
\* never causes a scroll, in any pass of the polling loop.
C37_ScrollOnlyForQualifyingMatch ==
  [][ ( /\ PollStep
        /\ now - resolving.startTime < resolving.timeout )
      => \E p \in {PollOnce(resolving.target, resolving.type,
                            resolving.requireVisible, scrollY)} :
           \A i \in 1..Len(p.scrolled) :
             scoreElement(p.scrolled[i], resolving.target, scrollY)
               >= thresholdLow
    ]_vars

\* C38: a pass of findElement's loop that finds a visible candidate with a
\* score of at least low (1.0) in the document returns a match, even when
\* a higher-scoring candidate is invisible and cannot be scrolled into
\* view; so findElement does not return null while such a candidate stays
\* in the document.
C38_VisibleCandidateIsReturned ==
  [][ ( /\ PollStep
        /\ now - resolving.startTime < resolving.timeout
        /\ \E e \in getRelevantElements(resolving.type) :
             /\ isElementVisible(e, scrollY)
             /\ isElementVisible(e, scrollY')
             /\ scoreElement(e, resolving.target, scrollY) >= thresholdLow )
      => /\ resolving'.phase = "returned"
         /\ resolving'.match # NullMatch
    ]_vars

\* C40: every match findElement or findMultipleElements returns has a
\* textual signal (a label or aria-label, an attribute or a nearby text
\* that matches the target), because type bias adds at most one roleBias
\* (0.8) to an element, which is below the low threshold (1.0).
C40_NoMatchOnTypeBiasAlone ==
  /\ resolving.phase \in {"polling", "returned", "listed"}
       => \A e \in Elements :
            scoreTypeBias(e, resolving.target) <= roleBias
  /\ \A m \in ({resolving.matches[i] : i \in 1..Len(resolving.matches)}
                \cup {resolving.match}) \ {NullMatch} :
       scoreLabelAssociation(m.element, resolving.target)
         + scoreAttributes(m.element, resolving.target)
         + scoreNearbyText(m.element, resolving.target) > 0

C36_ScrollWaitCompletesAtQuietOrCeiling ==
  scrollWait.phase = "resolved" =>
    /\ scrollWait.resolvedAt <= scrollCeilingMs
    /\ \E quiet \in {(IF scrollWait.lastScroll = NoTimer THEN 0
                      ELSE scrollWait.lastScroll) + scrollQuietMs} :
         scrollWait.resolvedAt =
           (IF quiet < scrollCeilingMs THEN quiet ELSE scrollCeilingMs)

====
